---- MODULE Spec2Model ----
(***************************************************************************)
(* Model of the analysis engine of rustycpp: the ownership / borrow        *)
(* tracker of src/analysis/mod.rs (process_statement, check_function and   *)
(* OwnershipTracker) and the safety gate in front of it.                   *)
(*                                                                         *)
(* The tracker is driven one statement at a time: every action hands one   *)
(* statement of a function body (or one bracketed loop, or one If with its *)
(* branches) to the code that check_function runs for it.                  *)
(***************************************************************************)
EXTENDS Integers, Sequences, FiniteSets, TLC

VARIABLES
    ownership,          \* OwnershipTracker.ownership: var -> OwnershipState
    borrows,            \* OwnershipTracker.borrows: source var -> BorrowInfo
    reference_info,     \* OwnershipTracker.reference_info: var -> ReferenceInfo
    scope_stack,        \* OwnershipTracker.scope_stack: Seq of local_borrows sets
    loop_depth,         \* OwnershipTracker.loop_depth
    loop_entry_states,  \* OwnershipTracker.loop_entry_states
    unsafe_depth,       \* OwnershipTracker.unsafe_depth
    errors,             \* the Vec<String> that check_function returns
    i,                  \* check_function's index into block.statements
    last_statement,     \* block.statements[i] (or the bracketed loop) handled last
    program,            \* IrProgram.functions given to check_borrows_with_safety_context
    header_cache,       \* HeaderCache.signatures: function name -> FunctionSignature
    safety_context,     \* SafetyContext: file_default and function_overrides
    pc,                 \* where check_borrows_with_safety_context stands
    fn_index,           \* the function its current `for function in ...` loop is at
    gate_errors,        \* its `errors`, each tagged with the function it is about
    lifetime_scope,     \* a LifetimeScope of lifetime_checker.rs
    outlives,           \* the last check_outlives call on it and what it returned
    source_lines,       \* the lines of the file given to parse_safety_annotations
    scan_pc,            \* which of its two passes over the file is running
    current_line,       \* lines read so far in the running pass
    in_comment_block,   \* parse_safety_annotations: in_comment_block
    pending_annotation, \* parse_safety_annotations: pending_annotation
    parsed_context,     \* the SafetyContext under construction
    unsafe_stack,       \* scan_unsafe_regions: unsafe_stack
    found_regions,      \* scan_unsafe_regions: regions
    ast_function,       \* the parsed Function given to check_unsafe_propagation
    checked_statements, \* statements of its body that the `for stmt` loop has checked
    propagation_errors, \* check_unsafe_propagation: errors
    cfg,                \* IrFunction.cfg given to analyze_function_scopes
    block_queue,        \* analyze_function_scopes: queue
    visited_blocks,     \* analyze_function_scopes: visited
    analyzed_blocks,    \* the blocks handed to analyze_block, in call order
    walk_pc             \* where analyze_function_scopes stands

tracker_vars == <<ownership, borrows, reference_info, scope_stack, loop_depth,
                  loop_entry_states, unsafe_depth, errors, i, last_statement>>

gate_vars == <<program, header_cache, safety_context, pc, fn_index, gate_errors>>

outlives_vars == <<lifetime_scope, outlives>>

\* the state of the components that stand beside the tracker and the gate
scan_vars == <<source_lines, scan_pc, current_line, in_comment_block, pending_annotation,
               parsed_context, unsafe_stack, found_regions>>

propagation_vars == <<ast_function, checked_statements, propagation_errors>>

walk_vars == <<cfg, block_queue, visited_blocks, analyzed_blocks, walk_pc>>

side_vars == <<outlives_vars, scan_vars, propagation_vars, walk_vars>>

vars == <<ownership, borrows, reference_info, scope_stack, loop_depth,
          loop_entry_states, unsafe_depth, errors, i, last_statement,
          program, header_cache, safety_context, pc, fn_index, gate_errors,
          lifetime_scope, outlives,
          source_lines, scan_pc, current_line, in_comment_block, pending_annotation,
          parsed_context, unsafe_stack, found_regions,
          ast_function, checked_statements, propagation_errors,
          cfg, block_queue, visited_blocks, analyzed_blocks, walk_pc>>

----------------------------------------------------------------------------
(* Bounds of the exploration *)

MaxStart == 3         \* statements are fed while i < MaxStart

----------------------------------------------------------------------------
(* Names and statements *)

Names == {"x", "y", "r1", "r2"}
Temp == "_moved_x"            \* a temporary move marker (to.starts_with("_moved_"))
NoVar == "<expr>"             \* an rhs that is not IrExpression::Variable

IsTempMarker(to) == to = Temp

Move(from, to) == [op |-> "Move", from |-> from, to |-> to]
Borrow(from, to, kind) == [op |-> "Borrow", from |-> from, to |-> to, kind |-> kind]
Assign(lhs, rhs) == [op |-> "Assign", lhs |-> lhs, rhs |-> rhs]
Marker(op) == [op |-> op]
Loop(loop_body) == [op |-> "Loop", loop_body |-> loop_body]
CallExpr(func, args, has_result, result) ==
    [op |-> "CallExpr", func |-> func, args |-> args, has_result |-> has_result,
     result |-> result]
Return(has_value, value) == [op |-> "Return", has_value |-> has_value, value |-> value]
Drop(name) == [op |-> "Drop", name |-> name]
If(then_branch, has_else, else_branch) ==
    [op |-> "If", then_branch |-> then_branch, has_else |-> has_else,
     else_branch |-> else_branch]

----------------------------------------------------------------------------
(* Error messages: the format string of the push, and the variable it names *)

MsgMoveBehindRef == "Cannot move out of '{}' because it is behind a reference"
MsgUseAfterMove == "Use after move: variable '{}' has already been moved"
MsgBorrowMoved == "Cannot borrow '{}' because it has been moved"
MsgImmWhileMut == "Cannot create immutable reference to '{}': already mutably borrowed"
MsgMutWhileImm == "Cannot create mutable reference to '{}': already immutably borrowed"
MsgMutWhileMut == "Cannot create mutable reference to '{}': already mutably borrowed"
MsgAssignConst == "Cannot assign to '{}' through const reference"
MsgRhsMoved == "Use after move: variable '{}' has been moved"
MsgLoopMove == "Use after move in loop: variable '{}' was moved in first iteration and used again in second iteration"

Err(msg, var) == [msg |-> msg, var |-> var]

\* substring tests on the messages above
ContainsUseAfterMove(e) == e.msg \in {MsgUseAfterMove, MsgRhsMoved, MsgLoopMove}
ContainsAlreadyMutablyBorrowed(e) == e.msg \in {MsgImmWhileMut, MsgMutWhileMut}
MentionsLoop(e) == e.msg = MsgLoopMove

----------------------------------------------------------------------------
(* Hash maps as functions on their key set *)

Put(m, k, v) == [n \in DOMAIN m \cup {k} |-> IF n = k THEN v ELSE m[n]]
RemoveKeys(m, ks) == [n \in DOMAIN m \ ks |-> m[n]]
EmptyMap == [n \in {} |-> 0]
Min(a, b) == IF a < b THEN a ELSE b

DefaultBorrowInfo == [immutable_count |-> 0, has_mutable |-> FALSE, borrowers |-> {}]

----------------------------------------------------------------------------
(* OwnershipTracker methods.  st is the tracker together with the errors   *)
(* vector and a trace of the statements processed by the current step.     *)

set_ownership(st, var, state) ==
    [st EXCEPT !.ownership = Put(st.ownership, var, state)]

get_ownership(st, var) ==
    IF var \in DOMAIN st.ownership THEN st.ownership[var] ELSE "None"

get_borrows(st, var) ==
    IF var \in DOMAIN st.borrows THEN st.borrows[var] ELSE DefaultBorrowInfo

is_in_unsafe_block(st) == st.unsafe_depth > 0

\* add_borrow that counts no immutable borrow
add_borrow_uncounted(st, from, to, kind) ==
    LET old == get_borrows(st, from)
        info == [immutable_count |-> old.immutable_count,
                 has_mutable |-> IF kind = "Mutable" THEN TRUE ELSE old.has_mutable,
                 borrowers |-> old.borrowers \cup {to}]
        n == Len(st.scope_stack)
    IN [st EXCEPT !.borrows = Put(st.borrows, from, info),
                  !.scope_stack = IF n > 0
                                     THEN [st.scope_stack EXCEPT ![n] = @ \cup {to}]
                                     ELSE st.scope_stack]

add_borrow(st, from, to, kind) ==
    LET old == get_borrows(st, from)
        info == [immutable_count |-> IF kind = "Immutable"
                                        THEN old.immutable_count + 1
                                        ELSE old.immutable_count,
                 has_mutable |-> IF kind = "Mutable" THEN TRUE ELSE old.has_mutable,
                 borrowers |-> old.borrowers \cup {to}]
        n == Len(st.scope_stack)
    IN [st EXCEPT !.borrows = Put(st.borrows, from, info),
                  !.scope_stack = IF n > 0
                                     THEN [st.scope_stack EXCEPT ![n] = @ \cup {to}]
                                     ELSE st.scope_stack]

mark_as_reference(st, var, is_mutable) ==
    [st EXCEPT !.reference_info =
        Put(st.reference_info, var, [is_reference |-> TRUE, is_mutable |-> is_mutable])]

is_reference(st, var) ==
    IF var \in DOMAIN st.reference_info
        THEN st.reference_info[var].is_reference ELSE FALSE

is_mutable_reference(st, var) ==
    IF var \in DOMAIN st.reference_info
        THEN st.reference_info[var].is_reference /\ st.reference_info[var].is_mutable
        ELSE FALSE

\* enter_scope that pushes no frame inside an unsafe region
enter_scope_outside_unsafe(st) ==
    IF st.unsafe_depth > 0 THEN st ELSE [st EXCEPT !.scope_stack = Append(@, {})]

enter_scope(st) == [st EXCEPT !.scope_stack = Append(@, {})]

\* borrowers named in `gone` are dropped from every entry; entries left
\* without a borrower are removed (borrows.retain)
DropBorrowers(bmap, gone) ==
    LET stripped == [v \in DOMAIN bmap |->
                        [bmap[v] EXCEPT !.borrowers = @ \ gone]]
        kept == {v \in DOMAIN bmap : stripped[v].borrowers # {}}
    IN [v \in kept |-> stripped[v]]

exit_scope(st) ==
    LET n == Len(st.scope_stack) IN
    IF n = 0 THEN st
    ELSE LET local_borrows == st.scope_stack[n] IN
         [st EXCEPT !.scope_stack = SubSeq(st.scope_stack, 1, n - 1),
                    !.reference_info = RemoveKeys(st.reference_info, local_borrows),
                    !.borrows = DropBorrowers(st.borrows, local_borrows)]

enter_loop(st) ==
    [st EXCEPT !.loop_entry_states =
                   Append(@, [ownership |-> st.ownership, borrows |-> st.borrows]),
               !.loop_depth = @ + 1]

exit_loop(st) ==
    IF st.loop_depth > 0
        THEN [st EXCEPT !.loop_depth = @ - 1,
                        !.loop_entry_states =
                            IF Len(@) > 0 THEN SubSeq(@, 1, Len(@) - 1) ELSE @]
        ELSE st

clone_state(st) ==
    [ownership |-> st.ownership, borrows |-> st.borrows,
     reference_info |-> st.reference_info]

\* restore_state that also rolls the error vector back to empty
restore_state_clearing_errors(st, state) ==
    [st EXCEPT !.ownership = state.ownership,
               !.borrows = state.borrows,
               !.reference_info = state.reference_info,
               !.errors = <<>>]

restore_state(st, state) ==
    [st EXCEPT !.ownership = state.ownership,
               !.borrows = state.borrows,
               !.reference_info = state.reference_info]

\* MergeOwnership without its "moved in both branches" arm
MergeOwnership_one_sided_only(then_ownership, else_ownership) ==
    IF then_ownership = "Moved" \/ else_ownership = "Moved" THEN "Owned"
    ELSE then_ownership

MergeOwnership(then_ownership, else_ownership) ==
    IF then_ownership = "Moved" /\ else_ownership = "Moved" THEN "Moved"
    ELSE IF then_ownership = "Moved" \/ else_ownership = "Moved" THEN "Owned"
    ELSE then_ownership

\* merge_states keeping the borrowers of either branch
merge_states_union(st, then_state, else_state) ==
    LET common == DOMAIN then_state.ownership \cap DOMAIN else_state.ownership
        own == [v \in DOMAIN st.ownership \cup common |->
                   IF v \in common
                       THEN MergeOwnership(then_state.ownership[v], else_state.ownership[v])
                       ELSE st.ownership[v]]
        both == DOMAIN then_state.borrows \cap DOMAIN else_state.borrows
        merged == [v \in both |->
                     [immutable_count |-> Min(then_state.borrows[v].immutable_count,
                                              else_state.borrows[v].immutable_count),
                      has_mutable |-> then_state.borrows[v].has_mutable
                                        /\ else_state.borrows[v].has_mutable,
                      borrowers |-> then_state.borrows[v].borrowers
                                        \cup else_state.borrows[v].borrowers]]
        kept == {v \in both : merged[v].borrowers # {}}
        refs_to_keep == DOMAIN then_state.reference_info
                            \cap DOMAIN else_state.reference_info
    IN [st EXCEPT !.ownership = own,
                  !.borrows = [v \in kept |-> merged[v]],
                  !.reference_info =
                      RemoveKeys(st.reference_info, DOMAIN st.reference_info \ refs_to_keep)]

merge_states(st, then_state, else_state) ==
    LET common == DOMAIN then_state.ownership \cap DOMAIN else_state.ownership
        own == [v \in DOMAIN st.ownership \cup common |->
                   IF v \in common
                       THEN MergeOwnership(then_state.ownership[v], else_state.ownership[v])
                       ELSE st.ownership[v]]
        both == DOMAIN then_state.borrows \cap DOMAIN else_state.borrows
        merged == [v \in both |->
                     [immutable_count |-> Min(then_state.borrows[v].immutable_count,
                                              else_state.borrows[v].immutable_count),
                      has_mutable |-> then_state.borrows[v].has_mutable
                                        /\ else_state.borrows[v].has_mutable,
                      borrowers |-> then_state.borrows[v].borrowers
                                        \cap else_state.borrows[v].borrowers]]
        kept == {v \in both : merged[v].borrowers # {}}
        refs_to_keep == DOMAIN then_state.reference_info
                            \cap DOMAIN else_state.reference_info
    IN [st EXCEPT !.ownership = own,
                  !.borrows = [v \in kept |-> merged[v]],
                  !.reference_info =
                      RemoveKeys(st.reference_info, DOMAIN st.reference_info \ refs_to_keep)]

clear_loop_locals(st, loop_locals) ==
    [st EXCEPT !.reference_info = RemoveKeys(st.reference_info, loop_locals),
               !.borrows = DropBorrowers(st.borrows, loop_locals),
               !.ownership = RemoveKeys(st.ownership, loop_locals)]

push(st, e) == [st EXCEPT !.errors = Append(@, e)]

----------------------------------------------------------------------------
(* Trace of the current step: one event per statement handed to            *)
(* process_statement, with the tracker before and after it.  `pass` is the *)
(* loop pass (0 outside a loop), `branch` the If branch being walked and   *)
(* `state_after_first` the snapshot the second pass is checked against.    *)

Untraced(st) == [st EXCEPT !.trace = <<>>]

Logged(before, statement, after) ==
    [after EXCEPT !.trace = Append(@, [stmt |-> statement,
                                       pass |-> before.pass,
                                       branch |-> before.branch,
                                       pre |-> Untraced(before),
                                       post |-> Untraced(after)])]

\* the errors an event appended
Appended(e) == SubSeq(e.post.errors, Len(e.pre.errors) + 1, Len(e.post.errors))

----------------------------------------------------------------------------
(* process_statement *)

RECURSIVE process_statement(_, _)
RECURSIVE process_branch(_, _)

\* process_move that reports no use after move
process_move_unchecked(stmt, st) ==
    LET from == stmt.from
        to == stmt.to
    IN IF is_in_unsafe_block(st)
         THEN set_ownership(set_ownership(st, from, "Moved"), to, "Owned")
       ELSE IF is_reference(st, from)
         THEN push(st, Err(MsgMoveBehindRef, from))
       ELSE IF IsTempMarker(to)
         THEN set_ownership(st, from, "Moved")
         ELSE set_ownership(set_ownership(st, from, "Moved"), to, "Owned")

\* process_move without the `is_reference(from)` arm
process_move_through_reference(statement, st) ==
    LET from == statement.from
        to == statement.to
    IN IF is_in_unsafe_block(st)
         THEN set_ownership(set_ownership(st, from, "Moved"), to, "Owned")
       ELSE LET checked == IF get_ownership(st, from) = "Moved"
                              THEN push(st, Err(MsgUseAfterMove, from))
                              ELSE st
            IN IF IsTempMarker(to)
                 THEN set_ownership(checked, from, "Moved")
                 ELSE set_ownership(set_ownership(checked, from, "Moved"), to, "Owned")

\* process_move that ends the borrows of the moved variable
process_move_releasing_borrows(statement, st) ==
    LET from == statement.from
        to == statement.to
        released == [st EXCEPT !.borrows = RemoveKeys(@, {from})]
    IN IF is_in_unsafe_block(st)
         THEN set_ownership(set_ownership(st, from, "Moved"), to, "Owned")
       ELSE IF is_reference(st, from)
         THEN push(st, Err(MsgMoveBehindRef, from))
       ELSE LET checked == IF get_ownership(st, from) = "Moved"
                              THEN push(released, Err(MsgUseAfterMove, from))
                              ELSE released
            IN IF IsTempMarker(to)
                 THEN set_ownership(checked, from, "Moved")
                 ELSE set_ownership(set_ownership(checked, from, "Moved"), to, "Owned")

process_move(statement, st) ==
    LET from == statement.from
        to == statement.to
    IN IF is_in_unsafe_block(st)
         THEN set_ownership(set_ownership(st, from, "Moved"), to, "Owned")
       ELSE IF is_reference(st, from)
         THEN push(st, Err(MsgMoveBehindRef, from))
       ELSE LET checked == IF get_ownership(st, from) = "Moved"
                              THEN push(st, Err(MsgUseAfterMove, from))
                              ELSE st
            IN IF IsTempMarker(to)
                 THEN set_ownership(checked, from, "Moved")
                 ELSE set_ownership(set_ownership(checked, from, "Moved"), to, "Owned")

\* process_borrow without the `else if current_borrows.has_mutable` arm
process_borrow_no_second_mutable(statement, st) ==
    LET from == statement.from
        to == statement.to
        kind == statement.kind
        record(s) == mark_as_reference(add_borrow(s, from, to, kind), to, kind = "Mutable")
        current_borrows == get_borrows(st, from)
    IN IF is_in_unsafe_block(st)
         THEN record(st)
       ELSE IF get_ownership(st, from) = "Moved"
         THEN push(st, Err(MsgBorrowMoved, from))
       ELSE IF kind = "Immutable"
         THEN record(IF current_borrows.has_mutable
                        THEN push(st, Err(MsgImmWhileMut, from))
                        ELSE st)
       ELSE record(IF current_borrows.immutable_count > 0
                      THEN push(st, Err(MsgMutWhileImm, from))
                      ELSE st)

\* process_borrow without the `return` after "it has been moved"
process_borrow_recording_moved(statement, st) ==
    LET from == statement.from
        to == statement.to
        kind == statement.kind
        record(s) == mark_as_reference(add_borrow(s, from, to, kind), to, kind = "Mutable")
    IN IF is_in_unsafe_block(st)
         THEN record(st)
       ELSE IF get_ownership(st, from) = "Moved"
         THEN record(push(st, Err(MsgBorrowMoved, from)))
       ELSE record(st)

process_borrow(statement, st) ==
    LET from == statement.from
        to == statement.to
        kind == statement.kind
        record(s) == mark_as_reference(add_borrow(s, from, to, kind), to, kind = "Mutable")
        current_borrows == get_borrows(st, from)
    IN IF is_in_unsafe_block(st)
         THEN record(st)
       ELSE IF get_ownership(st, from) = "Moved"
         THEN push(st, Err(MsgBorrowMoved, from))
       ELSE IF kind = "Immutable"
         THEN record(IF current_borrows.has_mutable
                        THEN push(st, Err(MsgImmWhileMut, from))
                        ELSE st)
       ELSE record(IF current_borrows.immutable_count > 0
                      THEN push(st, Err(MsgMutWhileImm, from))
                   ELSE IF current_borrows.has_mutable
                      THEN push(st, Err(MsgMutWhileMut, from))
                   ELSE st)

\* process_assign that takes every reference on the left for a const one
process_assign_any_reference(statement, st) ==
    LET lhs == statement.lhs
        rhs == statement.rhs
    IN IF is_in_unsafe_block(st)
         THEN st
       ELSE LET s1 == IF is_reference(st, lhs)
                         THEN push(st, Err(MsgAssignConst, lhs))
                         ELSE st
            IN IF rhs # NoVar /\ get_ownership(s1, rhs) = "Moved"
                 THEN push(s1, Err(MsgRhsMoved, rhs))
                 ELSE s1

process_assign(statement, st) ==
    LET lhs == statement.lhs
        rhs == statement.rhs
    IN IF is_in_unsafe_block(st)
         THEN st
       ELSE LET s1 == IF is_reference(st, lhs) /\ ~is_mutable_reference(st, lhs)
                         THEN push(st, Err(MsgAssignConst, lhs))
                         ELSE st
            IN IF rhs # NoVar /\ get_ownership(s1, rhs) = "Moved"
                 THEN push(s1, Err(MsgRhsMoved, rhs))
                 ELSE s1

process_if(statement, st) ==
    IF is_in_unsafe_block(st)
      THEN st
    ELSE LET state_before_if == clone_state(st)
             after_then == process_branch(statement.then_branch,
                                          [st EXCEPT !.branch = "then"])
             state_after_then == clone_state(after_then)
             restored == restore_state(after_then, state_before_if)
             after_else == process_branch(statement.else_branch,
                                          [restored EXCEPT !.branch = "else"])
             merged == IF statement.has_else
                         THEN merge_states(after_else, state_after_then,
                                           clone_state(after_else))
                         ELSE merge_states(restored, state_after_then, state_before_if)
         IN [merged EXCEPT !.branch = st.branch]

process_statement(statement, st) ==
    CASE statement.op = "Move" -> process_move(statement, st)
      [] statement.op = "Borrow" -> process_borrow(statement, st)
      [] statement.op = "Assign" -> process_assign(statement, st)
      [] statement.op = "EnterScope" -> enter_scope(st)
      [] statement.op = "ExitScope" -> exit_scope(st)
      [] statement.op = "EnterUnsafe" -> [st EXCEPT !.unsafe_depth = @ + 1]
      [] statement.op = "ExitUnsafe" ->
            IF st.unsafe_depth > 0 THEN [st EXCEPT !.unsafe_depth = @ - 1] ELSE st
      [] statement.op = "If" -> process_if(statement, st)
      [] OTHER -> st    \* EnterLoop, ExitLoop, CallExpr, Return, Drop

\* `for stmt in branch { process_statement(stmt, ...) }`
process_branch(stmts, st) ==
    IF stmts = <<>> THEN st
    ELSE process_branch(Tail(stmts),
                        Logged(st, Head(stmts), process_statement(Head(stmts), st)))

----------------------------------------------------------------------------
(* check_function: the two-pass treatment of EnterLoop ... ExitLoop *)

\* check_statement_for_loop_errors without its Move arm
check_statement_for_loop_errors_assign_only(stmt, state_after_first, st) ==
    LET moved(v) == v \in DOMAIN state_after_first /\ state_after_first[v] = "Moved"
    IN IF stmt.op = "Assign" /\ stmt.rhs # NoVar /\ moved(stmt.rhs)
          THEN push(st, Err(MsgLoopMove, stmt.rhs)) ELSE st

\* check_statement_for_loop_errors with an arm for Return
check_statement_for_loop_errors_with_return(statement, state_after_first, st) ==
    LET moved(v) == v \in DOMAIN state_after_first /\ state_after_first[v] = "Moved"
    IN CASE statement.op = "Move" ->
              IF moved(statement.from)
                 THEN push(st, Err(MsgLoopMove, statement.from)) ELSE st
         [] statement.op = "Assign" ->
              IF statement.rhs # NoVar /\ moved(statement.rhs)
                 THEN push(st, Err(MsgLoopMove, statement.rhs)) ELSE st
         [] statement.op = "Return" ->
              IF statement.has_value /\ moved(statement.value)
                 THEN push(st, Err(MsgLoopMove, statement.value)) ELSE st
         [] OTHER -> st

check_statement_for_loop_errors(statement, state_after_first, st) ==
    LET moved(v) == v \in DOMAIN state_after_first /\ state_after_first[v] = "Moved"
    IN CASE statement.op = "Move" ->
              IF moved(statement.from)
                 THEN push(st, Err(MsgLoopMove, statement.from)) ELSE st
         [] statement.op = "Assign" ->
              IF statement.rhs # NoVar /\ moved(statement.rhs)
                 THEN push(st, Err(MsgLoopMove, statement.rhs)) ELSE st
         [] OTHER -> st

RECURSIVE second_iteration(_, _, _)
second_iteration(stmts, state_after_first, st) ==
    IF stmts = <<>> THEN st
    ELSE LET checked == check_statement_for_loop_errors(Head(stmts), state_after_first, st)
         IN second_iteration(Tail(stmts), state_after_first,
                Logged(st, Head(stmts), process_statement(Head(stmts), checked)))

LoopLocalVars(loop_body) ==
    {loop_body[k].to : k \in {j \in 1..Len(loop_body) : loop_body[j].op = "Borrow"}}

StateAfterFirst(loop_body, st) ==
    process_branch(loop_body, [enter_loop(st) EXCEPT !.pass = 1]).ownership

check_loop(loop_body, st) ==
    LET loop_local_vars == LoopLocalVars(loop_body)
        first == process_branch(loop_body, [enter_loop(st) EXCEPT !.pass = 1])
        state_after_first == first.ownership
        cleared == clear_loop_locals(first, loop_local_vars)
        second == second_iteration(loop_body, state_after_first,
                                   [cleared EXCEPT !.pass = 2,
                                                   !.state_after_first = state_after_first])
    IN [exit_loop(clear_loop_locals(second, loop_local_vars))
            EXCEPT !.pass = 0, !.state_after_first = EmptyMap]

----------------------------------------------------------------------------
(* The statements of a function body *)

Kinds == {"Immutable", "Mutable"}

MoveStmts == {Move("x", "y"), Move("y", "x"), Move("x", "x"), Move("x", Temp),
              Move("r1", "y")}
BorrowStmts == {Borrow("x", t, k) : t \in {"r1", "r2"}, k \in Kinds}
AssignStmts == {Assign("x", NoVar), Assign("y", "x"), Assign("r1", "x")}
MarkerStmts == {Marker("EnterScope"), Marker("ExitScope"),
                Marker("EnterUnsafe"), Marker("ExitUnsafe")}

SimpleStmts == MoveStmts \cup BorrowStmts \cup AssignStmts \cup MarkerStmts

\* statements inside If branches and loop bodies
InnerStmts ==
    {Move("x", "y"), Move("y", "x"), Move("x", "x"),
     Borrow("x", "r1", "Immutable"), Borrow("x", "r2", "Mutable"),
     Assign("y", "x"), Marker("EnterUnsafe")}

Branches == {<<>>} \cup {<<s>> : s \in InnerStmts}

IfStmts == {If(t, FALSE, <<>>) : t \in Branches}
              \cup {If(t, TRUE, e) : t \in Branches, e \in Branches}

BodyStmts == InnerStmts \cup
    {Marker("ExitUnsafe"),
     If(<<Move("x", "y")>>, FALSE, <<>>),
     If(<<Move("y", "x")>>, FALSE, <<>>),
     If(<<Move("x", "y")>>, TRUE, <<Assign("y", "x")>>)}

LoopBodies == {<<s>> : s \in BodyStmts}
                 \cup {<<s, t>> : s \in InnerStmts, t \in BodyStmts}
                 \cup {<<Marker("EnterUnsafe"), s, Marker("ExitUnsafe")>> : s \in InnerStmts}
                 \cup {<<Move("r1", "y")>>}

\* every statement, and every loop, that the properties try as the next one
AllStmts == SimpleStmts \cup IfStmts
               \cup {If(<<Move("r1", "y")>>, TRUE, <<Move("r1", "y")>>)}

\* the Ifs and loops that the state machine itself feeds
FedIfs ==
    {If(<<Move("x", "y")>>, FALSE, <<>>),
     If(<<Move("x", "y")>>, TRUE, <<Move("x", Temp)>>),
     If(<<>>, TRUE, <<Move("y", "x")>>),
     If(<<Borrow("x", "r1", "Immutable")>>, TRUE, <<Borrow("x", "r1", "Immutable")>>)}

FedLoops ==
    {<<Move("x", "y")>>,
     <<Borrow("x", "r1", "Mutable")>>,
     <<Move("x", "y"), Move("y", "x")>>,
     <<Marker("EnterUnsafe"), Move("x", "y"), Marker("ExitUnsafe")>>}

----------------------------------------------------------------------------
(* State machine *)

\* function.variables as check_function sees them
Declarations ==
    {[x |-> "Owned", y |-> "Owned", r1 |-> "absent", r2 |-> "absent"],
     [x |-> "Owned", y |-> "absent", r1 |-> "ConstRef", r2 |-> "absent"],
     [x |-> "Owned", y |-> "Owned", r1 |-> "MutRef", r2 |-> "absent"]}

DeclaredOwnership(kind) ==
    CASE kind = "Owned" -> "Owned"
      [] kind = "ConstRef" -> "BorrowedImmutable"
      [] kind = "MutRef" -> "BorrowedMutable"

\* OwnershipTracker::new followed by the initialisation loop of check_function
TrackerFor(d) ==
    [ownership |-> [v \in {n \in Names : d[n] # "absent"} |-> DeclaredOwnership(d[v])],
     reference_info |-> [v \in {n \in Names : d[n] \in {"ConstRef", "MutRef"}} |->
                            [is_reference |-> TRUE, is_mutable |-> d[v] = "MutRef"]],
     borrows |-> EmptyMap, scope_stack |-> <<{}>>, loop_depth |-> 0,
     loop_entry_states |-> <<>>, unsafe_depth |-> 0, errors |-> <<>>,
     trace |-> <<>>, pass |-> 0, branch |-> "none", state_after_first |-> EmptyMap]

\* the safety gate, idle while one function is followed statement by statement
GateIdle ==
    /\ program = <<>>
    /\ header_cache = EmptyMap
    /\ safety_context = [file_default |-> "Safe", function_overrides |-> <<>>]
    /\ pc = "check_function"
    /\ fn_index = 1
    /\ gate_errors = <<>>

\* LifetimeScope::new, with no check_outlives call made
OutlivesIdle ==
    /\ lifetime_scope = [variable_lifetimes |-> EmptyMap, constraints |-> <<>>,
                         owned_variables |-> {}]
    /\ outlives = [longer |-> "", shorter |-> "", result |-> FALSE]

\* SafetyContext::new, with no file read
ScanIdle ==
    /\ source_lines = <<>>
    /\ scan_pc = "idle"
    /\ current_line = 0
    /\ in_comment_block = FALSE
    /\ pending_annotation = "None"
    /\ parsed_context = [file_default |-> "Default", function_overrides |-> <<>>,
                         block_regions |-> <<>>]
    /\ unsafe_stack = <<>>
    /\ found_regions = <<>>

\* no function handed to check_unsafe_propagation
PropagationIdle ==
    /\ ast_function = [name |-> "", body |-> <<>>]
    /\ checked_statements = 0
    /\ propagation_errors = <<>>

WalkIdle ==
    /\ cfg = [nodes |-> 0, edges |-> {}]
    /\ block_queue = <<>>
    /\ visited_blocks = {}
    /\ analyzed_blocks = <<>>
    /\ walk_pc = "idle"

SideIdle == OutlivesIdle /\ ScanIdle /\ PropagationIdle /\ WalkIdle

Init ==
    /\ \E d \in Declarations :
          /\ ownership = TrackerFor(d).ownership
          /\ reference_info = TrackerFor(d).reference_info
    /\ borrows = EmptyMap
    /\ scope_stack = <<{}>>
    /\ loop_depth = 0
    /\ loop_entry_states = <<>>
    /\ unsafe_depth = 0
    /\ errors = <<>>
    /\ i = 0
    /\ last_statement = Marker("none")
    /\ GateIdle
    /\ SideIdle

\* the tracker and error vector as the record the operators work on
Cur ==
    [ownership |-> ownership, borrows |-> borrows, reference_info |-> reference_info,
     scope_stack |-> scope_stack, loop_depth |-> loop_depth,
     loop_entry_states |-> loop_entry_states, unsafe_depth |-> unsafe_depth,
     errors |-> errors, trace |-> <<>>, pass |-> 0, branch |-> "none",
     state_after_first |-> EmptyMap]

Install(st) ==
    /\ ownership' = st.ownership
    /\ borrows' = st.borrows
    /\ reference_info' = st.reference_info
    /\ scope_stack' = st.scope_stack
    /\ loop_depth' = st.loop_depth
    /\ loop_entry_states' = st.loop_entry_states
    /\ unsafe_depth' = st.unsafe_depth
    /\ errors' = st.errors

\* check_function, `else` arm: one statement outside a loop
Exec(statement) == Logged(Cur, statement, process_statement(statement, Cur))

\* check_function, `if matches!(statement, EnterLoop)` arm: one whole loop
ExecLoop(loop_body) == check_loop(loop_body, Cur)

\* `while i < block.statements.len()`, for the statements explored
Ready == pc = "check_function" /\ i < MaxStart

Feed(s) ==
    /\ Install(Exec(s))
    /\ i' = i + 1
    /\ last_statement' = s
    /\ UNCHANGED <<gate_vars, side_vars>>

MoveStep == Ready /\ \E s \in MoveStmts : Feed(s)
BorrowStep == Ready /\ \E s \in BorrowStmts : Feed(s)
AssignStep == Ready /\ \E s \in AssignStmts : Feed(s)
EnterScopeStep == Ready /\ Feed(Marker("EnterScope"))
ExitScopeStep == Ready /\ Feed(Marker("ExitScope"))
EnterUnsafeStep == Ready /\ Feed(Marker("EnterUnsafe"))
ExitUnsafeStep == Ready /\ Feed(Marker("ExitUnsafe"))
IfStep == Ready /\ \E s \in FedIfs : Feed(s)
LoopStep ==
    \E b \in FedLoops :
        /\ Ready
        /\ Install(ExecLoop(b))
        /\ i' = i + Len(b) + 2
        /\ last_statement' = Loop(b)
        /\ UNCHANGED <<gate_vars, side_vars>>

Next ==
    \/ MoveStep
    \/ BorrowStep
    \/ AssignStep
    \/ EnterScopeStep
    \/ ExitScopeStep
    \/ EnterUnsafeStep
    \/ ExitUnsafeStep
    \/ IfStep
    \/ LoopStep

Spec == Init /\ [][Next]_vars

----------------------------------------------------------------------------
(* A whole function: IrFunction with one basic block.  `body` lists the    *)
(* block's statements, an EnterLoop ... ExitLoop range being one Loop item *)

Function(name, variables, body) == [name |-> name, variables |-> variables, body |-> body]

VarType(function, v) ==
    IF v \in DOMAIN function.variables THEN function.variables[v] ELSE "absent"

Declared(function) == {n \in DOMAIN function.variables : function.variables[n] # "absent"}

IsReferenceType(function, v) == VarType(function, v) \in {"ConstRef", "MutRef"}

\* block.statements
RECURSIVE Statements(_)
Statements(body) ==
    IF body = <<>> THEN <<>>
    ELSE IF Head(body).op = "Loop"
      THEN <<Marker("EnterLoop")>> \o Head(body).loop_body \o <<Marker("ExitLoop")>>
              \o Statements(Tail(body))
      ELSE <<Head(body)>> \o Statements(Tail(body))

RECURSIVE check_block(_, _)
check_block(body, st) ==
    IF body = <<>> THEN st
    ELSE check_block(Tail(body),
            IF Head(body).op = "Loop"
              THEN check_loop(Head(body).loop_body, st)
              ELSE Logged(st, Head(body), process_statement(Head(body), st)))

check_function(function) == check_block(function.body, TrackerFor(function.variables))

\* an error of the lifetime analyses: format string and its arguments in order
ErrN(msg, args) == [msg |-> msg, var |-> args]

RECURSIVE Flat(_)
Flat(seqs) == IF seqs = <<>> THEN <<>> ELSE Head(seqs) \o Flat(Tail(seqs))

\* the orders in which a hash map or hash set can hand out the elements of S
RECURSIVE Orderings(_)
Orderings(S) ==
    IF S = {} THEN {<<>>}
    ELSE UNION {{<<x>> \o r : r \in Orderings(S \ {x})} : x \in S}

Earliest(S) == CHOOSE m \in S : \A n \in S : m <= n
Latest(S) == CHOOSE m \in S : \A n \in S : n <= m

----------------------------------------------------------------------------
(* lifetime_inference.rs.  Statement indexes start at 0 as in the code.    *)

MsgBorrowNotAlive == "Cannot borrow '{}': variable is not alive at this point"
MsgMutBorrowed == "Cannot create mutable borrow '{}': '{}' is already borrowed by '{}'"
MsgMoveNotAlive == "Cannot move '{}': variable is not alive at this point"
MsgDangling == "Potential dangling reference: returning '{}' which depends on local variable '{}'"

\* LifetimeInferencer::process_statement: what a statement defines and uses
Defs(s) ==
    CASE s.op = "Assign" -> {s.lhs}
      [] s.op \in {"Move", "Borrow"} -> {s.to}
      [] s.op = "CallExpr" -> IF s.has_result THEN {s.result} ELSE {}
      [] OTHER -> {}

Uses(s) ==
    CASE s.op = "Assign" -> {s.lhs}
      [] s.op \in {"Move", "Borrow"} -> {s.from, s.to}
      [] s.op = "CallExpr" ->
            {s.args[k] : k \in DOMAIN s.args} \cup (IF s.has_result THEN {s.result} ELSE {})
      [] s.op = "Return" -> IF s.has_value THEN {s.value} ELSE {}
      [] OTHER -> {}

first_def(stmts) ==
    [v \in UNION {Defs(stmts[k]) : k \in DOMAIN stmts} |->
        Earliest({k \in DOMAIN stmts : v \in Defs(stmts[k])}) - 1]

last_use(stmts) ==
    [v \in UNION {Uses(stmts[k]) : k \in DOMAIN stmts} |->
        Latest({k \in DOMAIN stmts : v \in Uses(stmts[k])}) - 1]

\* second pass of infer_function_lifetimes (the generated names are not used)
lifetime_ranges(stmts) ==
    [v \in DOMAIN first_def(stmts) |->
        [start |-> first_def(stmts)[v],
         end |-> IF v \in DOMAIN last_use(stmts) THEN last_use(stmts)[v]
                                                 ELSE first_def(stmts)[v],
         dependencies |-> {}]]

\* infer_dependencies without its Move arm
RECURSIVE infer_dependencies_borrows_only(_, _)
infer_dependencies_borrows_only(stmts, lifetimes) ==
    IF stmts = <<>> THEN lifetimes
    ELSE LET s == Head(stmts)
             next ==
               CASE s.op = "Borrow" /\ s.to \in DOMAIN lifetimes ->
                      [lifetimes EXCEPT ![s.to].dependencies = @ \cup {s.from}]
                 [] OTHER -> lifetimes
         IN infer_dependencies_borrows_only(Tail(stmts), next)

RECURSIVE infer_dependencies(_, _)
infer_dependencies(stmts, lifetimes) ==
    IF stmts = <<>> THEN lifetimes
    ELSE LET s == Head(stmts)
             next ==
               CASE s.op = "Borrow" /\ s.to \in DOMAIN lifetimes ->
                      [lifetimes EXCEPT ![s.to].dependencies = @ \cup {s.from}]
                 [] s.op = "Move" /\ s.from \in DOMAIN lifetimes
                                  /\ s.to \in DOMAIN lifetimes ->
                      [lifetimes EXCEPT ![s.to].dependencies =
                                           @ \cup lifetimes[s.from].dependencies]
                 [] OTHER -> lifetimes
         IN infer_dependencies(Tail(stmts), next)

infer_function_lifetimes(stmts) == infer_dependencies(stmts, lifetime_ranges(stmts))

lifetimes_overlap(lifetimes, a, b) ==
    /\ a \in DOMAIN lifetimes
    /\ b \in DOMAIN lifetimes
    /\ ~(lifetimes[a].end < lifetimes[b].start \/ lifetimes[b].end < lifetimes[a].start)

\* is_alive_at taking a variable without inferred lifetime as alive
is_alive_at_or_untracked(lifetimes, var, point) ==
    var \in DOMAIN lifetimes =>
        (point >= lifetimes[var].start /\ point <= lifetimes[var].end)

is_alive_at(lifetimes, var, point) ==
    /\ var \in DOMAIN lifetimes
    /\ point >= lifetimes[var].start
    /\ point <= lifetimes[var].end

\* no name of the model starts with "param" or "arg"
is_likely_parameter(var_name) == Len(var_name) = 1

\* the error sequences one statement can add in infer_and_validate_lifetimes
validate_statement(function, lifetimes, s, statement_index) ==
    CASE s.op = "Borrow" ->
           LET dead == IF /\ s.from \in DOMAIN lifetimes
                          /\ ~is_alive_at(lifetimes, s.from, statement_index)
                         THEN <<ErrN(MsgBorrowNotAlive, <<s.from>>)>> ELSE <<>>
               others == IF s.kind = "Mutable"
                           THEN {o \in DOMAIN lifetimes :
                                    /\ o # s.to
                                    /\ s.from \in lifetimes[o].dependencies
                                    /\ lifetimes_overlap(lifetimes, s.to, o)}
                           ELSE {}
           IN {dead \o r :
                 r \in Orderings({ErrN(MsgMutBorrowed, <<s.to, s.from, o>>) : o \in others})}
      [] s.op = "Move" ->
           {IF ~is_alive_at(lifetimes, s.from, statement_index)
              THEN <<ErrN(MsgMoveNotAlive, <<s.from>>)>> ELSE <<>>}
      [] s.op = "Return" ->
           IF s.has_value /\ IsReferenceType(function, s.value) /\ s.value \in DOMAIN lifetimes
             THEN Orderings({ErrN(MsgDangling, <<s.value, dep>>) :
                               dep \in {d \in lifetimes[s.value].dependencies :
                                           ~is_likely_parameter(d)}})
             ELSE {<<>>}
      [] OTHER -> {<<>>}

RECURSIVE validate_from(_, _, _, _)
validate_from(function, lifetimes, stmts, statement_index) ==
    IF stmts = <<>> THEN {<<>>}
    ELSE {a \o b : a \in validate_statement(function, lifetimes, Head(stmts), statement_index),
                   b \in validate_from(function, lifetimes, Tail(stmts), statement_index + 1)}

\* the error vectors infer_and_validate_lifetimes can return for a function
infer_and_validate_lifetimes(function) ==
    validate_from(function, infer_function_lifetimes(Statements(function.body)),
                  Statements(function.body), 0)

----------------------------------------------------------------------------
(* parser/annotations.rs and parser/header_cache.rs *)

Ann(kind, name) == [kind |-> kind, name |-> name]     \* Some(LifetimeAnnotation)
NoAnn == [kind |-> "None", name |-> ""]               \* None

Bound(longer, shorter) == [longer |-> longer, shorter |-> shorter]

Signature(param_lifetimes, lifetime_bounds, return_lifetime, safety) ==
    [param_lifetimes |-> param_lifetimes, lifetime_bounds |-> lifetime_bounds,
     return_lifetime |-> return_lifetime, safety |-> safety]

has_signatures(cache) == DOMAIN cache # {}

\* Option<String>
Some(v) == [some |-> TRUE, val |-> v]
NoneOpt == [some |-> FALSE, val |-> ""]

----------------------------------------------------------------------------
(* lifetime_checker.rs *)

MsgExpectsRef == "Function '{}' expects a reference for parameter {}, but '{}' is owned"
MsgExpectsOwned == "Function '{}' expects ownership of parameter {}, but '{}' is a reference"
MsgConstraint == "Lifetime constraint violated in call to '{}': '{}' must outlive '{}'"
MsgReturnLocal == "Returning reference to local variable '{}' - this will create a dangling reference"

\* format!("'{}", name)
LifetimeOf(name) == "'" \o name

\* lifetime.contains(var_name): no name of the model is part of another one
Contains(lifetime, var_name) == lifetime = LifetimeOf(var_name)

\* `visited` is one set shared by the whole search: each call returns it
\* together with the answer
RECURSIVE check_outlives_transitive(_, _, _, _)
RECURSIVE transitive_loop(_, _, _, _, _)

\* `for constraint in &self.constraints`, from the k-th constraint on
transitive_loop(constraints, k, longer, shorter, visited) ==
    IF k > Len(constraints) THEN [found |-> FALSE, visited |-> visited]
    ELSE IF constraints[k].longer # longer
      THEN transitive_loop(constraints, k + 1, longer, shorter, visited)
    ELSE IF constraints[k].shorter = shorter
      THEN [found |-> TRUE, visited |-> visited]
    ELSE LET through == check_outlives_transitive(constraints, constraints[k].shorter,
                                                  shorter, visited)
         IN IF through.found THEN through
            ELSE transitive_loop(constraints, k + 1, longer, shorter, through.visited)

\* check_outlives_transitive answering true when it meets a visited lifetime
check_outlives_transitive_closing_cycles(constraints, longer, shorter, visited) ==
    IF longer \in visited THEN [found |-> TRUE, visited |-> visited]
    ELSE transitive_loop(constraints, 1, longer, shorter, visited \cup {longer})

check_outlives_transitive(constraints, longer, shorter, visited) ==
    IF longer \in visited THEN [found |-> FALSE, visited |-> visited]
    ELSE transitive_loop(constraints, 1, longer, shorter, visited \cup {longer})

\* check_outlives without the transitive search
check_outlives_direct_only(scope, longer, shorter) ==
    \/ longer = shorter
    \/ \E k \in DOMAIN scope.constraints :
          scope.constraints[k].longer = longer /\ scope.constraints[k].shorter = shorter

check_outlives(scope, longer, shorter) ==
    \/ longer = shorter
    \/ \E k \in DOMAIN scope.constraints :
          scope.constraints[k].longer = longer /\ scope.constraints[k].shorter = shorter
    \/ check_outlives_transitive(scope.constraints, longer, shorter, {}).found

add_constraint(scope, constraint) ==
    [scope EXCEPT !.constraints = Append(@, constraint)]

map_lifetime_to_actual(lifetime_name, arg_lifetimes) ==
    LET get(k) == IF k <= Len(arg_lifetimes) THEN arg_lifetimes[k] ELSE NoneOpt
    IN CASE lifetime_name = "a" -> get(1)
         [] lifetime_name = "b" -> get(2)
         [] lifetime_name = "c" -> get(3)
         [] OTHER -> Some(LifetimeOf(lifetime_name))

is_owned(scope, var) == var \in scope.owned_variables

check_function_call(func_name, args, signature, scope) ==
    IF Len(args) # Len(signature.param_lifetimes) THEN <<>>
    ELSE LET arg_lifetimes ==
               [k \in 1..Len(args) |->
                   IF args[k] \in DOMAIN scope.variable_lifetimes
                     THEN Some(scope.variable_lifetimes[args[k]])
                   ELSE IF is_owned(scope, args[k]) THEN NoneOpt
                   ELSE Some("'arg" \o ToString(k - 1))]
             param(k) ==
               LET expected == signature.param_lifetimes[k]
               IN IF expected.kind \in {"Ref", "MutRef"} /\ is_owned(scope, args[k])
                    THEN <<ErrN(MsgExpectsRef, <<func_name, ToString(k), args[k]>>)>>
                  ELSE IF expected.kind = "Owned" /\ ~is_owned(scope, args[k])
                    THEN <<ErrN(MsgExpectsOwned, <<func_name, ToString(k), args[k]>>)>>
                  ELSE <<>>
             bound(k) ==
               LET longer == map_lifetime_to_actual(signature.lifetime_bounds[k].longer,
                                                    arg_lifetimes)
                   shorter == map_lifetime_to_actual(signature.lifetime_bounds[k].shorter,
                                                     arg_lifetimes)
               IN IF longer.some /\ shorter.some
                     /\ ~check_outlives(scope, longer.val, shorter.val)
                    THEN <<ErrN(MsgConstraint, <<func_name, longer.val, shorter.val>>)>>
                    ELSE <<>>
         IN Flat([k \in 1..Len(args) |-> param(k)])
               \o Flat([k \in 1..Len(signature.lifetime_bounds) |-> bound(k)])

\* lifetime_checker's is_parameter: a "param" or "arg" prefix, which no name
\* of the model has
is_parameter(var_name) == FALSE

check_return_lifetime(value, function, scope) ==
    IF value \in DOMAIN scope.variable_lifetimes
      THEN Orderings({ErrN(MsgReturnLocal, <<var_name>>) :
                        var_name \in {n \in Declared(function) :
                                         /\ Contains(scope.variable_lifetimes[value], n)
                                         /\ ~is_parameter(n)}})
      ELSE {<<>>}

\* the initialisation loop of check_function_lifetimes
\* LifetimeScope::new with a bound between the two references registered
LifetimeScope_with_bound(function) ==
    [variable_lifetimes |-> [v \in {n \in Declared(function) : IsReferenceType(function, n)}
                                |-> LifetimeOf(v)],
     constraints |-> <<Bound(LifetimeOf("r1"), LifetimeOf("r2"))>>,
     owned_variables |-> {n \in Declared(function) : ~IsReferenceType(function, n)}]

LifetimeScope(function) ==
    [variable_lifetimes |-> [v \in {n \in Declared(function) : IsReferenceType(function, n)}
                                |-> LifetimeOf(v)],
     constraints |-> <<>>,
     owned_variables |-> {n \in Declared(function) : ~IsReferenceType(function, n)}]

RECURSIVE lifetimes_from(_, _, _, _)
lifetimes_from(function, cache, stmts, scope) ==
    IF stmts = <<>> THEN {<<>>}
    ELSE LET s == Head(stmts)
             here ==
               CASE s.op = "CallExpr" /\ s.func \in DOMAIN cache ->
                      {check_function_call(s.func, s.args, cache[s.func], scope)}
                 [] s.op = "Return" /\ s.has_value ->
                      check_return_lifetime(s.value, function, scope)
                 [] OTHER -> {<<>>}
             next ==
               IF s.op = "Borrow"
                 THEN IF s.from \in DOMAIN scope.variable_lifetimes
                        THEN [scope EXCEPT !.variable_lifetimes =
                                 Put(@, s.to, scope.variable_lifetimes[s.from])]
                      ELSE IF is_owned(scope, s.from)
                        THEN [scope EXCEPT !.variable_lifetimes =
                                 Put(@, s.to, LifetimeOf(s.to))]
                      ELSE scope
                 ELSE scope
         IN {a \o b : a \in here, b \in lifetimes_from(function, cache, Tail(stmts), next)}

\* the error vectors check_function_lifetimes can return for a function
check_function_lifetimes(function, cache) ==
    lifetimes_from(function, cache, Statements(function.body), LifetimeScope(function))

----------------------------------------------------------------------------
(* scope_lifetime.rs: analyze_function_scopes pushes the function scope,   *)
(* with no parent, and analyzes every block in that scope                  *)

MsgScopeNotAlive == "Cannot borrow from '{}': variable is not alive in current scope"
MsgNotOutlive == "Lifetime '{}' does not outlive '{}' at {}"
MsgBorrowsDead == "Reference '{}' borrows from '{}' which is not alive at {}"
MsgDanglingReturn == "Returning reference to local variable '{}' - will create dangling reference"

\* Scope.parent: None
NoParent == -1

\* ScopedLifetimeTracker::new; `scopes` keeps each scope's parent
ScopedLifetimeTracker_new ==
    [scopes |-> EmptyMap,
     variable_scope |-> EmptyMap,
     lifetime_scopes |-> EmptyMap,
     constraints |-> <<>>,
     next_scope_id |-> 0,
     errors |-> <<>>]

\* push_scope that numbers the scopes from 1
push_scope_counting_from_one(tracker, parent) ==
    [id |-> tracker.next_scope_id + 1,
     tracker |-> [tracker EXCEPT !.scopes = Put(@, tracker.next_scope_id + 1, parent),
                                 !.next_scope_id = @ + 2]]

\* the new scope's id and the tracker that holds it
push_scope(tracker, parent) ==
    [id |-> tracker.next_scope_id,
     tracker |-> [tracker EXCEPT !.scopes = Put(@, tracker.next_scope_id, parent),
                                 !.next_scope_id = @ + 1]]

\* `let func_scope = tracker.push_scope(ScopeKind::Function, None)`
func_scope == push_scope(ScopedLifetimeTracker_new, NoParent).id

\* the `while let Some(scope) = self.scopes.get(&current)` loop
RECURSIVE is_ancestor_from(_, _, _)
is_ancestor_from(tracker, scope_a, current) ==
    IF current \notin DOMAIN tracker.scopes THEN FALSE
    ELSE IF tracker.scopes[current] = NoParent THEN FALSE
    ELSE IF tracker.scopes[current] = scope_a THEN TRUE
    ELSE is_ancestor_from(tracker, scope_a, tracker.scopes[current])

is_ancestor_scope(tracker, scope_a, scope_b) ==
    scope_a = scope_b \/ is_ancestor_from(tracker, scope_a, scope_b)

is_alive_in_scope(tracker, var, scope_id) ==
    /\ var \in DOMAIN tracker.variable_scope
    /\ is_ancestor_scope(tracker, tracker.variable_scope[var], scope_id)

\* declare_variable and declare_reference: nothing for an unknown scope
declare(tracker, var, scope_id) ==
    IF scope_id \in DOMAIN tracker.scopes
      THEN [tracker EXCEPT !.variable_scope = Put(@, var, scope_id)]
      ELSE tracker

\* ScopedLifetimeTracker::check_outlives on (start_scope, end_scope) ranges
scoped_check_outlives(tracker, longer, shorter) ==
    IF longer \in DOMAIN tracker.lifetime_scopes /\ shorter \in DOMAIN tracker.lifetime_scopes
      THEN /\ tracker.lifetime_scopes[longer][1] <= tracker.lifetime_scopes[shorter][1]
           /\ tracker.lifetime_scopes[longer][2] >= tracker.lifetime_scopes[shorter][2]
      ELSE longer = shorter

\* scope_lifetime.rs is_parameter; none of the model's names starts with
\* "param" or "arg"
scoped_is_parameter(var_name, function) ==
    /\ var_name \in Declared(function)
    /\ DeclaredOwnership(function.variables[var_name]) = "Owned"

\* the function scope and the parameter loop of analyze_function_scopes
ScopedTracker(function) ==
    LET pushed == push_scope(ScopedLifetimeTracker_new, NoParent)
        references == {v \in Declared(function) : IsReferenceType(function, v)}
    IN [pushed.tracker EXCEPT
          !.variable_scope =
              IF pushed.id \in DOMAIN pushed.tracker.scopes
                THEN [v \in Declared(function) |-> pushed.id]
                ELSE EmptyMap,
          !.lifetime_scopes =
              [l \in {"'param_" \o n : n \in references} |-> <<pushed.id, pushed.id>>]]

analyze_statement(s, scope_id, tracker, function, cache) ==
    CASE s.op = "Borrow" ->
           IF ~is_alive_in_scope(tracker, s.from, scope_id)
             THEN [tracker EXCEPT !.errors = Append(@, ErrN(MsgScopeNotAlive, <<s.from>>))]
             ELSE declare([tracker EXCEPT !.constraints =
                              Append(@, [kind |-> "BorrowedFrom", a |-> s.to, b |-> s.from,
                                         location |-> "borrow of " \o s.to \o " from " \o s.from])],
                          s.to, scope_id)
      [] s.op = "Return" ->
           IF /\ s.has_value
              /\ s.value \in DOMAIN tracker.variable_scope
              /\ tracker.variable_scope[s.value] # 0
              /\ ~scoped_is_parameter(s.value, function)
              /\ IsReferenceType(function, s.value)
             THEN [tracker EXCEPT !.errors = Append(@, ErrN(MsgDanglingReturn, <<s.value>>))]
             ELSE tracker
      [] s.op = "CallExpr" /\ s.func \in DOMAIN cache ->
           LET signature == cache[s.func]
               bounded == [tracker EXCEPT !.constraints = @ \o
                             [k \in 1..Len(signature.lifetime_bounds) |->
                                 [kind |-> "Outlives",
                                  a |-> signature.lifetime_bounds[k].longer,
                                  b |-> signature.lifetime_bounds[k].shorter,
                                  location |-> "call to " \o s.func]]]
           IN IF s.has_result /\ signature.return_lifetime.kind \in {"Ref", "MutRef", "Owned"}
                THEN declare(bounded, s.result, scope_id)
                ELSE bounded
      [] OTHER -> tracker

RECURSIVE analyze_block(_, _, _, _, _)
analyze_block(stmts, scope_id, tracker, function, cache) ==
    IF stmts = <<>> THEN tracker
    ELSE analyze_block(Tail(stmts), scope_id,
                       analyze_statement(Head(stmts), scope_id, tracker, function, cache),
                       function, cache)

validate_constraints(tracker) ==
    LET one(c) ==
          IF c.kind = "Outlives"
            THEN IF ~scoped_check_outlives(tracker, c.a, c.b)
                   THEN <<ErrN(MsgNotOutlive, <<c.a, c.b, c.location>>)>> ELSE <<>>
          ELSE IF /\ c.a \in DOMAIN tracker.variable_scope
                  /\ ~is_alive_in_scope(tracker, c.b, tracker.variable_scope[c.a])
            THEN <<ErrN(MsgBorrowsDead, <<c.a, c.b, c.location>>)>>
          ELSE <<>>
    IN Flat([k \in 1..Len(tracker.constraints) |-> one(tracker.constraints[k])])

\* the tracker when the walk has analyzed the function's block
TrackerAfterWalk(function, cache) ==
    analyze_block(Statements(function.body), func_scope, ScopedTracker(function), function,
                  cache)

analyze_function_scopes(function, cache) ==
    LET tracker == TrackerAfterWalk(function, cache)
    IN tracker.errors \o validate_constraints(tracker)

----------------------------------------------------------------------------
(* parser/safety_annotations.rs and check_borrows_with_safety_context *)

\* should_check_function that never looks at the overrides
should_check_function_default_only(context, func_name) ==
    context.file_default = "Safe"

should_check_function(context, func_name) ==
    LET hits == {k \in DOMAIN context.function_overrides :
                    context.function_overrides[k][1] = func_name}
    IN IF hits # {}
         THEN context.function_overrides[Earliest(hits)][2] = "Safe"
         ELSE context.file_default = "Safe"

has_any_safe_functions(functions, cache) ==
    \E k \in DOMAIN functions :
        /\ functions[k].name \in DOMAIN cache
        /\ cache[functions[k].name].safety = "Safe"

\* the early `return Ok(Vec::new())`
NothingToCheck ==
    /\ safety_context.file_default # "Safe"
    /\ ~\E k \in DOMAIN safety_context.function_overrides :
           safety_context.function_overrides[k][2] = "Safe"
    /\ ~has_any_safe_functions(program, header_cache)

Tagged(function, analysis, errs) ==
    [k \in 1..Len(errs) |-> [fn |-> function.name, analysis |-> analysis, error |-> errs[k]]]

\* the concatenations of one sequence out of each set, in the order of the sets
RECURSIVE Concats(_)
Concats(sets) ==
    IF sets = <<>> THEN {<<>>}
    ELSE {a \o b : a \in Head(sets), b \in Concats(Tail(sets))}

\* the error vectors check_borrows_with_safety_context can return
check_borrows_with_safety_context(functions, cache, context) ==
    LET checked(k) == should_check_function(context, functions[k].name)
        per_function(analysis, results(_), gated) ==
            [k \in 1..Len(functions) |->
                IF gated /\ ~checked(k) THEN {<<>>}
                ELSE {Tagged(functions[k], analysis, r) : r \in results(functions[k])}]
    IN IF /\ context.file_default # "Safe"
          /\ ~\E k \in DOMAIN context.function_overrides :
                 context.function_overrides[k][2] = "Safe"
          /\ ~has_any_safe_functions(functions, cache)
         THEN {<<>>}
         ELSE Concats(
                per_function("ownership", LAMBDA f : {check_function(f).errors}, TRUE)
                \o per_function("inference", LAMBDA f : infer_and_validate_lifetimes(f), TRUE)
                \o (IF has_signatures(cache)
                      THEN per_function("lifetimes",
                                        LAMBDA f : check_function_lifetimes(f, cache), FALSE)
                           \o per_function("scoped",
                                           LAMBDA f : {analyze_function_scopes(f, cache)}, FALSE)
                      ELSE <<>>))

\* the bodies, signatures and safety contexts the gate is run on
GateBodies ==
    {<<Move("x", "y"), Move("x", "r2")>>,
     <<CallExpr("callee", <<"x">>, FALSE, "")>>,
     <<CallExpr("callee", <<"r1", "x">>, TRUE, "r2"), Return(TRUE, "r2")>>,
     <<Borrow("y", "r1", "Immutable"), Return(TRUE, "r1")>>,
     <<Assign("x", NoVar), Borrow("x", "r1", "Mutable"), Borrow("x", "r2", "Mutable"),
       Assign("r1", NoVar)>>,
     <<Loop(<<Move("x", "y")>>)>>,
     <<Borrow("x", "y", "Immutable"), Borrow("x", "r1", "Immutable"),
       Borrow("x", "r2", "Mutable"), Assign("y", NoVar), Assign("r1", NoVar)>>}

\* functions that call with two references as arguments
CallBodies ==
    {<<CallExpr("callee", <<"r1", "r2">>, FALSE, "")>>,
     <<CallExpr("callee", <<"r1", "r1">>, FALSE, "")>>,
     <<Borrow("r1", "r2", "Immutable"), CallExpr("callee", <<"r1", "r2">>, FALSE, "")>>}

\* functions whose variables are defined before or after they are borrowed or moved
OrderBodies ==
    {<<Borrow("x", "r1", "Immutable"), Assign("x", NoVar)>>,
     <<Move("x", "y"), Assign("x", NoVar)>>,
     <<Assign("x", NoVar), Assign("y", "x")>>,
     <<Borrow("x", "r1", "Immutable"), Move("r1", "r2")>>,
     <<Move("r1", "r2"), Borrow("x", "r1", "Immutable")>>,
     <<Borrow("x", "r1", "Immutable"), Move("r1", "r2"), Borrow("y", "r1", "Immutable")>>,
     <<Assign("x", NoVar), Move("x", "y"), Move("y", "x"), Borrow("x", "r1", "Mutable")>>}

TwoReferences == [x |-> "Owned", y |-> "absent", r1 |-> "ConstRef", r2 |-> "MutRef"]

Programs ==
    {<<Function("f", d, b)>> : d \in Declarations, b \in GateBodies}
       \cup {<<Function("f", d, b), Function("g", d, <<Move("x", "y"), Move("x", "r2")>>)>> :
                d \in Declarations, b \in GateBodies}
       \cup {<<Function("f", TwoReferences, b)>> : b \in CallBodies \cup OrderBodies}

SigRef == Signature(<<Ann("Ref", "a")>>, <<>>, NoAnn, "None")
SigBound ==
    Signature(<<Ann("Ref", "a"), Ann("Owned", "")>>, <<Bound("a", "b")>>, Ann("Ref", "a"),
              "None")
SigSafe == Signature(<<>>, <<>>, NoAnn, "Safe")

SigTwoRefs ==
    Signature(<<Ann("Ref", "a"), Ann("MutRef", "b")>>,
              <<Bound("a", "b"), Bound("b", "a"), Bound("a", "a")>>, NoAnn, "None")

HeaderCaches ==
    {EmptyMap,
     [n \in {"callee"} |-> SigRef],
     [n \in {"callee", "g"} |-> IF n = "callee" THEN SigBound ELSE SigSafe],
     [n \in {"callee"} |-> SigTwoRefs]}

SafetyModes == {"Safe", "Unsafe", "Default"}

Overrides ==
    {<<>>, <<<<"f", "Safe">>>>, <<<<"f", "Unsafe">>>>, <<<<"g", "Safe">>>>,
     <<<<"f", "Unsafe">>, <<"f", "Safe">>>>}

SafetyContexts ==
    {[file_default |-> m, function_overrides |-> o] : m \in SafetyModes, o \in Overrides}

\* the call of check_borrows_with_safety_context, before its first statement
InitGate ==
    /\ ownership = EmptyMap
    /\ borrows = EmptyMap
    /\ reference_info = EmptyMap
    /\ scope_stack = <<{}>>
    /\ loop_depth = 0
    /\ loop_entry_states = <<>>
    /\ unsafe_depth = 0
    /\ errors = <<>>
    /\ i = 0
    /\ last_statement = Marker("none")
    /\ program \in Programs
    /\ header_cache \in HeaderCaches
    /\ safety_context \in SafetyContexts
    /\ pc = "enter"
    /\ fn_index = 1
    /\ gate_errors = <<>>
    /\ SideIdle

\* the end of one `for function in &program.functions` loop
Advance(next_pc) ==
    IF fn_index < Len(program)
      THEN fn_index' = fn_index + 1 /\ pc' = pc
      ELSE fn_index' = 1 /\ pc' = next_pc

EnterGate ==
    /\ pc = "enter"
    /\ pc' = IF NothingToCheck THEN "done" ELSE "ownership"
    /\ UNCHANGED <<tracker_vars, program, header_cache, safety_context, fn_index, gate_errors,
                   side_vars>>

\* first loop: check_function for the functions that are to be checked
OwnershipPass ==
    /\ pc = "ownership"
    /\ LET function == program[fn_index]
       IN IF should_check_function(safety_context, function.name)
            THEN /\ Install(check_function(function))
                 /\ i' = Len(Statements(function.body))
                 /\ gate_errors' = gate_errors \o
                       Tagged(function, "ownership", check_function(function).errors)
            ELSE UNCHANGED <<ownership, borrows, reference_info, scope_stack, loop_depth,
                             loop_entry_states, unsafe_depth, errors, i, gate_errors>>
    /\ Advance("inference")
    /\ UNCHANGED <<last_statement, program, header_cache, safety_context, side_vars>>

\* second loop: lifetime inference for the functions that are to be checked
InferencePass ==
    /\ pc = "inference"
    /\ LET function == program[fn_index]
       IN IF should_check_function(safety_context, function.name)
            THEN \E inference_errors \in infer_and_validate_lifetimes(function) :
                    gate_errors' = gate_errors \o Tagged(function, "inference", inference_errors)
            ELSE UNCHANGED gate_errors
    /\ Advance(IF has_signatures(header_cache) THEN "lifetimes" ELSE "done")
    /\ UNCHANGED <<tracker_vars, program, header_cache, safety_context, side_vars>>

\* check_lifetimes_with_annotations, one function of its loop at a time
LifetimePass ==
    /\ pc = "lifetimes"
    /\ LET function == program[fn_index]
       IN \E function_errors \in check_function_lifetimes(function, header_cache) :
             gate_errors' = gate_errors \o Tagged(function, "lifetimes", function_errors)
    /\ Advance("scoped")
    /\ UNCHANGED <<tracker_vars, program, header_cache, safety_context, side_vars>>

\* check_scoped_lifetimes, one function of its loop at a time
ScopedPass ==
    /\ pc = "scoped"
    /\ LET function == program[fn_index]
       IN gate_errors' = gate_errors \o
             Tagged(function, "scoped", analyze_function_scopes(function, header_cache))
    /\ Advance("done")
    /\ UNCHANGED <<tracker_vars, program, header_cache, safety_context, side_vars>>

NextGate ==
    \/ EnterGate
    \/ OwnershipPass
    \/ InferencePass
    \/ LifetimePass
    \/ ScopedPass

SpecGate == InitGate /\ [][NextGate]_vars

----------------------------------------------------------------------------
(* Properties.  They are stated over the events of the next step: in every *)
(* reachable tracker state, every statement of AllStmts and every loop of  *)
(* LoopBodies is processed as the next one.                                *)

EveryEvent(P(_)) ==
    /\ \A s \in AllStmts :
          LET tr == Exec(s).trace IN \A k \in 1..Len(tr) : P(tr[k])
    /\ \A b \in LoopBodies :
          LET tr == ExecLoop(b).trace IN \A k \in 1..Len(tr) : P(tr[k])

SomeEvent(P(_)) ==
    \/ \E s \in AllStmts :
          LET tr == Exec(s).trace IN \E k \in 1..Len(tr) : P(tr[k])
    \/ \E b \in LoopBodies :
          LET tr == ExecLoop(b).trace IN \E k \in 1..Len(tr) : P(tr[k])

IsBorrowOutsideUnsafe(e) ==
    /\ e.stmt.op = "Borrow"
    /\ e.pre.unsafe_depth = 0
    /\ get_ownership(e.pre, e.stmt.from) # "Moved"

ConflictingMutable(e) ==
    /\ IsBorrowOutsideUnsafe(e)
    /\ e.stmt.kind = "Mutable"
    /\ \/ get_borrows(e.pre, e.stmt.from).has_mutable
       \/ get_borrows(e.pre, e.stmt.from).immutable_count > 0

ConflictingImmutable(e) ==
    /\ IsBorrowOutsideUnsafe(e)
    /\ e.stmt.kind = "Immutable"
    /\ get_borrows(e.pre, e.stmt.from).has_mutable

\* C1: outside unsafe and for a source that is not Moved, a Mutable borrow of a
\* source that already has a mutable borrow or an immutable one appends exactly
\* one error, and an Immutable borrow of a mutably borrowed source appends
\* exactly one error, which says "already mutably borrowed".
C1_BorrowConflict ==
    EveryEvent(LAMBDA e :
        /\ ConflictingMutable(e) => Len(Appended(e)) = 1
        /\ ConflictingImmutable(e) =>
              /\ Len(Appended(e)) = 1
              /\ ContainsAlreadyMutablyBorrowed(Appended(e)[1]))

C1_Witness ==
    /\ last_statement = Borrow("x", "r1", "Immutable")
    /\ unsafe_depth = 0
    /\ errors = <<Err(MsgImmWhileMut, "x")>>
    /\ SomeEvent(LAMBDA e : ConflictingMutable(e) /\ e.branch = "then"
                              /\ Len(Appended(e)) = 1)
    /\ SomeEvent(LAMBDA e : ConflictingImmutable(e) /\ e.pass = 2
                              /\ ContainsAlreadyMutablyBorrowed(Appended(e)[1]))

IsMoveOutsideUnsafe(e) ==
    /\ e.stmt.op = "Move"
    /\ e.pre.unsafe_depth = 0
    /\ ~is_reference(e.pre, e.stmt.from)

UseAfterMoveCount(errs) ==
    Cardinality({k \in 1..Len(errs) : ContainsUseAfterMove(errs[k])})

\* C2 as claimed: a Move of a Moved source appends exactly one "Use after move"
\* error, a Move of an Owned source appends none and leaves the source Moved and
\* the destination Owned, in every context including both loop passes.
C2_Original ==
    EveryEvent(LAMBDA e :
        IsMoveOutsideUnsafe(e) =>
            /\ get_ownership(e.pre, e.stmt.from) = "Moved" =>
                  UseAfterMoveCount(Appended(e)) = 1
            /\ get_ownership(e.pre, e.stmt.from) = "Owned" =>
                  /\ Appended(e) = <<>>
                  /\ get_ownership(e.post, e.stmt.from) = "Moved"
                  /\ get_ownership(e.post, e.stmt.to) = "Owned")

\* what the second pass reports, for a statement directly in the loop body,
\* before process_statement runs
LoopPart(e) ==
    IF /\ e.pass = 2
       /\ e.branch = "none"
       /\ e.stmt.from \in DOMAIN e.pre.state_after_first
       /\ e.pre.state_after_first[e.stmt.from] = "Moved"
      THEN <<Err(MsgLoopMove, e.stmt.from)>>
      ELSE <<>>

\* C2 as amended: outside the second pass of a loop a Move of a Moved source
\* appends exactly one error, "Use after move", and a Move of an Owned source
\* none; for a Move directly in a loop body, in the second pass, one "Use after
\* move in loop" error comes first when the source was Moved at the end of the
\* first pass.  Afterwards the source is
\* Moved unless it is its own destination, and the destination is Owned unless
\* it is a temporary move marker, which is left as it was.
C2_MoveRule ==
    EveryEvent(LAMBDA e :
        (IsMoveOutsideUnsafe(e) /\ get_ownership(e.pre, e.stmt.from) \in {"Owned", "Moved"}) =>
            /\ Appended(e) = LoopPart(e) \o
                  (IF get_ownership(e.pre, e.stmt.from) = "Moved"
                      THEN <<Err(MsgUseAfterMove, e.stmt.from)>> ELSE <<>>)
            /\ e.stmt.to # e.stmt.from => get_ownership(e.post, e.stmt.from) = "Moved"
            /\ ~IsTempMarker(e.stmt.to) => get_ownership(e.post, e.stmt.to) = "Owned"
            /\ IsTempMarker(e.stmt.to) =>
                  get_ownership(e.post, e.stmt.to) = get_ownership(e.pre, e.stmt.to))

C2_Witness ==
    /\ last_statement = Move("x", "y")
    /\ unsafe_depth = 0
    /\ errors = <<Err(MsgUseAfterMove, "x")>>
    /\ get_ownership(Cur, "x") = "Moved"
    /\ get_ownership(Cur, "y") = "Owned"
    /\ SomeEvent(LAMBDA e : /\ IsMoveOutsideUnsafe(e)
                            /\ get_ownership(e.pre, e.stmt.from) = "Moved"
                            /\ e.pass = 2
                            /\ Len(Appended(e)) = 2)
    /\ SomeEvent(LAMBDA e : /\ IsMoveOutsideUnsafe(e)
                            /\ get_ownership(e.pre, e.stmt.from) = "Moved"
                            /\ e.branch = "else"
                            /\ Appended(e) = <<Err(MsgUseAfterMove, e.stmt.from)>>)
    /\ SomeEvent(LAMBDA e : /\ IsMoveOutsideUnsafe(e)
                            /\ get_ownership(e.pre, e.stmt.from) = "Owned"
                            /\ e.pass = 1
                            /\ Appended(e) = <<>>
                            /\ get_ownership(e.post, e.stmt.from) = "Moved")

\* a borrower name that the tracker does not know yet
Fresh(st, to) ==
    /\ to \notin DOMAIN st.reference_info
    /\ \A v \in DOMAIN st.borrows : to \notin st.borrows[v].borrowers
    /\ \A k \in 1..Len(st.scope_stack) : to \notin st.scope_stack[k]

ScopeRoundTrip(b) ==
    process_branch(<<Marker("EnterScope"), b, Marker("ExitScope")>>, Cur)

ScopeRoundTripUnsafe(b) ==
    process_branch(<<Marker("EnterScope"), Marker("EnterUnsafe"), b,
                     Marker("ExitUnsafe"), Marker("ExitScope")>>, Cur)

Released(after, b) ==
    /\ b.to \notin get_borrows(after, b.from).borrowers
    /\ b.to \notin DOMAIN after.reference_info
    /\ get_borrows(after, b.from).immutable_count = get_borrows(Cur, b.from).immutable_count
    /\ get_borrows(after, b.from).has_mutable = get_borrows(Cur, b.from).has_mutable

\* C3: a borrow created inside a scope is fully released by the matching
\* ExitScope: its borrower is removed, its reference_info erased and the
\* source's immutable_count and has_mutable are what they were before the scope.
C3_ScopeRelease ==
    \A b \in BorrowStmts :
        Fresh(Cur, b.to) => Released(ScopeRoundTrip(b), b) /\ Released(ScopeRoundTripUnsafe(b), b)

DirectlyMoves(loop_body, v) ==
    \E k \in 1..Len(loop_body) : loop_body[k].op = "Move" /\ loop_body[k].from = v

LoopErrors(loop_body) ==
    SubSeq(ExecLoop(loop_body).errors, Len(errors) + 1, Len(ExecLoop(loop_body).errors))

\* C4 as claimed: every loop whose body directly moves x, with x not Moved on
\* entry and not a reference, gets at least one error that mentions the loop.
C4_Original ==
    \A b \in LoopBodies : \A v \in Names :
        (DirectlyMoves(b, v) /\ get_ownership(Cur, v) # "Moved" /\ ~is_reference(Cur, v)) =>
            \E k \in 1..Len(LoopErrors(b)) : MentionsLoop(LoopErrors(b)[k])

\* the destinations of the Moves and Borrows of a statement list, at any depth
RECURSIVE Destinations(_)
Destinations(stmts) ==
    IF stmts = <<>> THEN {}
    ELSE LET h == Head(stmts)
             own == CASE h.op \in {"Move", "Borrow"} -> {h.to}
                      [] h.op = "If" -> Destinations(h.then_branch)
                                           \cup Destinations(h.else_branch)
                      [] OTHER -> {}
         IN own \cup Destinations(Tail(stmts))

\* C4 as amended: the same, provided no statement of the body (at any depth)
\* has x as its destination; the error then names x.
C4_LoopDoubling ==
    \A b \in LoopBodies : \A v \in Names :
        (/\ DirectlyMoves(b, v)
         /\ get_ownership(Cur, v) # "Moved"
         /\ ~is_reference(Cur, v)
         /\ v \notin Destinations(b)) =>
            \E k \in 1..Len(LoopErrors(b)) : LoopErrors(b)[k] = Err(MsgLoopMove, v)

C4_Witness ==
    /\ last_statement = Loop(<<Move("x", "y")>>)
    /\ unsafe_depth = 0
    /\ errors = <<Err(MsgLoopMove, "x"), Err(MsgUseAfterMove, "x")>>
    /\ \E b \in LoopBodies :
          /\ Len(b) = 2
          /\ DirectlyMoves(b, "y")
          /\ get_ownership(Cur, "y") = "Owned"
          /\ ~is_reference(Cur, "y")
          /\ "y" \notin Destinations(b)
          /\ b[2].op = "If"
          /\ \E k \in 1..Len(LoopErrors(b)) : LoopErrors(b)[k] = Err(MsgLoopMove, "y")

IsIfOutsideUnsafe(e) == e.stmt.op = "If" /\ e.pre.unsafe_depth = 0

\* the tracker at the end of each branch of the If of event e, as process_if
\* computes them; an If with no else is merged with the state before it
AfterThen(e) == process_branch(e.stmt.then_branch, e.pre)

AfterElse(e) ==
    IF e.stmt.has_else
      THEN process_branch(e.stmt.else_branch,
                          restore_state(AfterThen(e), clone_state(e.pre)))
      ELSE e.pre

MovedIn(e, after, v) ==
    get_ownership(e.pre, v) # "Moved" /\ get_ownership(after, v) = "Moved"

MovedInOneOutcome(e, v) ==
    \/ MovedIn(e, AfterThen(e), v) /\ get_ownership(AfterElse(e), v) # "Moved"
    \/ MovedIn(e, AfterElse(e), v) /\ get_ownership(AfterThen(e), v) # "Moved"

\* the statements that use v next
Following(v) ==
    {Move(v, w) : w \in Names \ {v}}
       \cup {Borrow(v, "r2", k) : k \in Kinds}
       \cup {Assign(w, v) : w \in Names \ {v}}

MovedMsgs == {MsgUseAfterMove, MsgBorrowMoved, MsgRhsMoved}

ErrorsOf(s, st) ==
    SubSeq(process_statement(s, st).errors, Len(st.errors) + 1,
           Len(process_statement(s, st).errors))

\* C5: a variable moved in exactly one outcome of an If (then only, else only,
\* or the then-branch of an If with no else), with or without an ownership
\* entry before the If, is not Moved after the If, and a following Move, Borrow
\* or Assign-read of it appends no error about a moved variable.
C5_OneSidedMove ==
    EveryEvent(LAMBDA e :
        IsIfOutsideUnsafe(e) =>
            \A v \in Names :
                MovedInOneOutcome(e, v) =>
                    /\ get_ownership(e.post, v) # "Moved"
                    /\ \A s \in Following(v) :
                          \A k \in 1..Len(ErrorsOf(s, e.post)) :
                              ErrorsOf(s, e.post)[k].msg \notin MovedMsgs)

MovedInBoth(e, v) ==
    /\ get_ownership(AfterThen(e), v) = "Moved"
    /\ get_ownership(AfterElse(e), v) = "Moved"

\* C6: a variable that is Moved at the end of both the then-branch and the
\* else-branch of an If is Moved after the If, and a following Move or Borrow
\* of it outside unsafe appends an error.
C6_TwoSidedMove ==
    EveryEvent(LAMBDA e :
        IsIfOutsideUnsafe(e) =>
            \A v \in Names :
                MovedInBoth(e, v) =>
                    /\ get_ownership(e.post, v) = "Moved"
                    /\ e.post.unsafe_depth = 0 =>
                          \A s \in {t \in Following(v) : t.op \in {"Move", "Borrow"}} :
                              Len(ErrorsOf(s, e.post)) >= 1)

C6_Witness ==
    /\ last_statement = If(<<Move("x", "y")>>, TRUE, <<Move("x", Temp)>>)
    /\ unsafe_depth = 0
    /\ errors = <<>>
    /\ get_ownership(Cur, "x") = "Moved"
    /\ ErrorsOf(Move("x", "y"), Cur) = <<Err(MsgUseAfterMove, "x")>>
    /\ ErrorsOf(Borrow("x", "r2", "Immutable"), Cur) = <<Err(MsgBorrowMoved, "x")>>
    /\ SomeEvent(LAMBDA e :
          /\ IsIfOutsideUnsafe(e)
          /\ ~e.stmt.has_else
          /\ MovedInBoth(e, "x")
          /\ get_ownership(e.post, "x") = "Moved")

\* C7: while unsafe-depth > 0 no statement appends an error, in or out of a
\* loop and in either pass.
C7_UnsafeSuppression ==
    EveryEvent(LAMBDA e : e.pre.unsafe_depth > 0 => Appended(e) = <<>>)

\* C9: no source variable has a mutable borrow together with immutable borrows.
C9_BorrowKindInvariant ==
    \A v \in DOMAIN borrows :
        ~(borrows[v].has_mutable /\ borrows[v].immutable_count > 0)

\* C10: an Assign to a variable whose state is Moved leaves it Owned, so that a
\* following Move or Borrow of it appends no error.
C10_ReassignRevives ==
    EveryEvent(LAMBDA e :
        (e.stmt.op = "Assign" /\ get_ownership(e.pre, e.stmt.lhs) = "Moved") =>
            /\ get_ownership(e.post, e.stmt.lhs) = "Owned"
            /\ \A s \in {t \in Following(e.stmt.lhs) : t.op \in {"Move", "Borrow"}} :
                  ErrorsOf(s, e.post) = <<>>)

\* C8: every error in the result of check_borrows_with_safety_context is about a
\* function for which should_check_function is true.
C8_SafetyGate ==
    \A k \in DOMAIN gate_errors :
        should_check_function(safety_context, gate_errors[k].fn)

----------------------------------------------------------------------------
(* Errors as a growing list *)

IsPrefix(a, b) == Len(a) <= Len(b) /\ SubSeq(b, 1, Len(a)) = a

\* the statement after an error-producing one is processed, from the errors
\* that one left, and adds what process_statement reports for it
StillProcessed(e, t) ==
    LET tr == process_branch(<<e.stmt, t>>, e.pre).trace
        last == tr[Len(tr)]
    IN /\ last.stmt = t
       /\ last.pre.errors = e.pre.errors \o ErrorsOf(e.stmt, e.pre)
       /\ last.post.errors = last.pre.errors \o ErrorsOf(t, last.pre)

\* the statements tried after an error-producing one
Followers == {Move("x", "y"), Borrow("x", "r2", "Mutable")}

\* the errors vector only grows over the statements of one step: it extends
\* the vector before the step at every statement, and the result extends it
GrowsOver(r) ==
    /\ IsPrefix(errors, r.errors)
    /\ \A k \in 1..Len(r.trace) :
          LET e == r.trace[k]
          IN /\ IsPrefix(errors, e.pre.errors)
             /\ IsPrefix(e.pre.errors, e.post.errors)
             /\ IsPrefix(e.post.errors, r.errors)
             /\ (e.stmt.op # "If" /\ Appended(e) # <<>>) =>
                    \A t \in Followers : StillProcessed(e, t)

C11_Events ==
    /\ \A s \in AllStmts : GrowsOver(Exec(s))
    /\ \A b \in LoopBodies : GrowsOver(ExecLoop(b))

C12_Determinism ==
    pc = "done" =>
        \A r \in check_borrows_with_safety_context(program, header_cache, safety_context) :
            r = gate_errors

\* what a run returns is one of the vectors the analysis can return
GateResultIsPossible ==
    pc = "done" =>
        gate_errors \in check_borrows_with_safety_context(program, header_cache,
                                                          safety_context)

----------------------------------------------------------------------------
(* LifetimeScope of lifetime_checker.rs on its own: bounds are registered   *)
(* with add_constraint and the relation is queried with check_outlives      *)

MaxBounds == 3        \* bounds registered in one LifetimeScope

Lifetimes == {"a", "b", "c", "d"}

\* OwnershipTracker::new, with no statement processed
TrackerIdle ==
    /\ ownership = EmptyMap
    /\ borrows = EmptyMap
    /\ reference_info = EmptyMap
    /\ scope_stack = <<{}>>
    /\ loop_depth = 0
    /\ loop_entry_states = <<>>
    /\ unsafe_depth = 0
    /\ errors = <<>>
    /\ i = 0
    /\ last_statement = Marker("none")

InitOutlives == TrackerIdle /\ GateIdle /\ SideIdle

AddConstraint ==
    /\ Len(lifetime_scope.constraints) < MaxBounds
    /\ \E longer \in Lifetimes, shorter \in Lifetimes :
          lifetime_scope' = add_constraint(lifetime_scope, Bound(longer, shorter))
    /\ UNCHANGED <<tracker_vars, gate_vars, outlives, scan_vars, propagation_vars, walk_vars>>

CheckOutlives ==
    /\ \E longer \in Lifetimes, shorter \in Lifetimes :
          outlives' = [longer |-> longer, shorter |-> shorter,
                       result |-> check_outlives(lifetime_scope, longer, shorter)]
    /\ UNCHANGED <<tracker_vars, gate_vars, lifetime_scope, scan_vars, propagation_vars, walk_vars>>

NextOutlives ==
    \/ AddConstraint
    \/ CheckOutlives

SpecOutlives == InitOutlives /\ [][NextOutlives]_vars

\* a chain of at most n registered bounds leads from lifetime a to lifetime b
RECURSIVE ChainExists(_, _, _, _)
ChainExists(bounds, a, b, n) ==
    /\ n > 0
    /\ \E k \in DOMAIN bounds :
          /\ bounds[k].longer = a
          /\ \/ bounds[k].shorter = b
             \/ ChainExists(bounds, bounds[k].shorter, b, n - 1)

\* C13: check_outlives is reflexive, and transitive over the registered bounds:
\* it is true along every chain of bounds a:b, b:c, ...; it is not symmetric: it
\* is true of two different lifetimes only when such a chain leads from the
\* first to the second, so a single bound a:b does not give check_outlives(b,a).
C13_Outlives ==
    LET bounds == lifetime_scope.constraints
        holds(a, b) == check_outlives(lifetime_scope, a, b)
    IN \A a \in Lifetimes, b \in Lifetimes :
          /\ holds(a, a)
          /\ ChainExists(bounds, a, b, Len(bounds)) => holds(a, b)
          /\ \A c \in Lifetimes : (holds(a, c) /\ holds(c, b)) => holds(a, b)
          /\ holds(a, b) => (a = b \/ ChainExists(bounds, a, b, Len(bounds)))
          /\ (bounds = <<Bound(a, b)>> /\ a # b) => ~holds(b, a)

C13_Witness ==
    /\ lifetime_scope.constraints = <<Bound("a", "b"), Bound("b", "c"), Bound("c", "d")>>
    /\ outlives = [longer |-> "a", shorter |-> "d", result |-> TRUE]
    /\ ~check_outlives(lifetime_scope, "d", "a")
    /\ check_outlives(lifetime_scope, "d", "d")

----------------------------------------------------------------------------
(* should_check_function *)

FunctionNames == {"f", "g", "h"}

OverridesOf(context, name) ==
    {k \in DOMAIN context.function_overrides : context.function_overrides[k][1] = name}

\* C14: should_check_function resolves per function.  With an override for the
\* name the result is true iff the override is Safe, whatever the file default
\* (of several overrides for one name the first one counts); with no override
\* it is true iff the file default is Safe, so a function with neither is not
\* checked.  The gate runs check_function and the lifetime inference for
\* exactly the functions it resolves to true.
C14_PerFunctionResolution ==
    /\ \A name \in FunctionNames :
          LET hits == OverridesOf(safety_context, name)
              mode(k) == safety_context.function_overrides[k][2]
              result == should_check_function(safety_context, name)
          IN /\ hits = {} => (result <=> safety_context.file_default = "Safe")
             /\ \A m \in SafetyModes :
                   (hits # {} /\ \A k \in hits : mode(k) = m) => (result <=> m = "Safe")
             /\ hits # {} => (result <=> mode(Earliest(hits)) = "Safe")
             /\ (hits = {} /\ safety_context.file_default = "Default") => ~result
    /\ \A k \in DOMAIN gate_errors :
          gate_errors[k].analysis \in {"ownership", "inference"} =>
              should_check_function(safety_context, gate_errors[k].fn)

C14_Witness ==
    /\ pc = "done"
    /\ safety_context = [file_default |-> "Safe", function_overrides |-> <<<<"f", "Unsafe">>>>]
    /\ Len(program) = 2
    /\ check_function(program[1]).errors # <<>>
    /\ ~should_check_function(safety_context, "f")
    /\ should_check_function(safety_context, "g")
    /\ \E k \in DOMAIN gate_errors :
          gate_errors[k].fn = "g" /\ gate_errors[k].analysis = "ownership"
    /\ \A k \in DOMAIN gate_errors :
          gate_errors[k].fn = "f" => gate_errors[k].analysis \in {"lifetimes", "scoped"}

----------------------------------------------------------------------------
(* parser/safety_annotations.rs: parse_safety_annotations reads the file    *)
(* line by line, then scan_unsafe_regions reads it again.  A line is what   *)
(* the string tests of the two loops see of it.                             *)

MaxLines == 4         \* lines of a file

\* starts: what the trimmed line starts with ("" for an empty line, "code" for
\* anything but "#", "//" and "/*"); closes: contains("*/"); marker: the result
\* of the contains("@safe") / contains("@unsafe") tests; region: contains
\* "// @unsafe" (open) or "// @endunsafe" (close); decl and name: the kind of
\* code element and extract_function_name
SourceLine(starts, closes, marker, region, decl, name) ==
    [starts |-> starts, closes |-> closes, marker |-> marker, region |-> region,
     decl |-> decl, name |-> name]

Comment(starts, closes, marker, region) ==
    SourceLine(starts, closes, marker, region, "none", "")
Code(decl, name) == SourceLine("code", FALSE, "None", "none", decl, name)

SourceLines ==
    {Comment("", FALSE, "None", "none"),              \* an empty line
     Comment("#", FALSE, "None", "none"),             \* #include <memory>
     Comment("//", FALSE, "Safe", "none"),            \* // @safe
     Comment("//", FALSE, "Unsafe", "open"),          \* // @unsafe
     Comment("//", FALSE, "None", "close"),           \* // @endunsafe
     Comment("/*", TRUE, "Safe", "none"),             \* /* @safe */
     Comment("/*", FALSE, "None", "none"),            \* /*
     SourceLine("code", TRUE, "None", "none", "other", ""),   \* */
     Code("namespace", ""),                           \* namespace myapp {
     Code("function", "f"),                           \* void f() {
     Code("function", "g"),                           \* void g();
     Code("block", ""),                               \* {
     Code("other", "")}                               \* int x = 42;

Files == UNION {[1..n -> SourceLines] : n \in 0..MaxLines}

\* `if contains("@safe") {..} else if contains("@unsafe") {..}`
Marked(src, pending) == IF src.marker # "None" THEN src.marker ELSE pending

\* `if let Some(annotation) = pending_annotation.take()`, on a line of code
apply_annotation(context, src, annotation) ==
    CASE src.decl = "namespace" -> [context EXCEPT !.file_default = annotation]
      [] src.decl = "function" ->
            IF src.name # ""
              THEN [context EXCEPT !.function_overrides = Append(@, <<src.name, annotation>>)]
              ELSE context
      [] src.decl = "block" -> context
      [] OTHER -> IF context.file_default = "Default"
                    THEN [context EXCEPT !.file_default = annotation]
                    ELSE context

\* one turn of the loop of parse_safety_annotations
annotation_line(scanner, src) ==
    IF scanner.in_comment_block
      THEN [scanner EXCEPT !.in_comment_block = ~src.closes,
                           !.pending_annotation = Marked(src, @)]
    ELSE IF src.starts = "/*"
      THEN [scanner EXCEPT !.in_comment_block = TRUE,
                           !.pending_annotation = Marked(src, @)]
    ELSE IF src.starts = "//"
      THEN [scanner EXCEPT !.pending_annotation = Marked(src, @)]
    ELSE IF src.starts \in {"", "#"}
      THEN scanner
    ELSE IF scanner.pending_annotation = "None"
      THEN scanner
    ELSE [scanner EXCEPT !.pending_annotation = "None",
                         !.context = apply_annotation(@, src, scanner.pending_annotation)]

UnsafeRegion(start_line, end_line) == [start_line |-> start_line, end_line |-> end_line]

\* region_line that closes the oldest open marker instead of the innermost
region_line_oldest_first(scanner, src, line_num) ==
    IF src.region = "open"
      THEN [scanner EXCEPT !.unsafe_stack = Append(@, line_num + 1)]
    ELSE IF src.region = "close" /\ scanner.unsafe_stack # <<>>
      THEN [scanner EXCEPT
              !.unsafe_stack = Tail(@),
              !.regions = Append(@, UnsafeRegion(Head(scanner.unsafe_stack), line_num + 1))]
    ELSE scanner

\* one turn of the loop of scan_unsafe_regions; line_num counts from 0
region_line(scanner, src, line_num) ==
    IF src.region = "open"
      THEN [scanner EXCEPT !.unsafe_stack = Append(@, line_num + 1)]
    ELSE IF src.region = "close" /\ scanner.unsafe_stack # <<>>
      THEN [scanner EXCEPT
              !.unsafe_stack = SubSeq(@, 1, Len(@) - 1),
              !.regions = Append(@, UnsafeRegion(scanner.unsafe_stack[Len(scanner.unsafe_stack)],
                                                 line_num + 1))]
    ELSE scanner

is_line_unsafe(context, line_no) ==
    \E k \in DOMAIN context.block_regions :
        /\ line_no >= context.block_regions[k].start_line
        /\ line_no <= context.block_regions[k].end_line

InitScan ==
    /\ TrackerIdle
    /\ GateIdle
    /\ OutlivesIdle
    /\ PropagationIdle
    /\ WalkIdle
    /\ source_lines \in Files
    /\ scan_pc = "annotations"
    /\ current_line = 0
    /\ in_comment_block = FALSE
    /\ pending_annotation = "None"
    /\ parsed_context = [file_default |-> "Default", function_overrides |-> <<>>,
                         block_regions |-> <<>>]
    /\ unsafe_stack = <<>>
    /\ found_regions = <<>>

\* `for line_result in reader.lines()` of parse_safety_annotations
AnnotationLine ==
    /\ scan_pc = "annotations"
    /\ current_line < Len(source_lines)
    /\ LET after == annotation_line([in_comment_block |-> in_comment_block,
                                     pending_annotation |-> pending_annotation,
                                     context |-> parsed_context],
                                    source_lines[current_line + 1])
       IN /\ in_comment_block' = after.in_comment_block
          /\ pending_annotation' = after.pending_annotation
          /\ parsed_context' = after.context
    /\ current_line' = current_line + 1
    /\ UNCHANGED <<tracker_vars, gate_vars, outlives_vars, propagation_vars, walk_vars,
                   source_lines, scan_pc,
                   unsafe_stack, found_regions>>

\* end of file: `context.block_regions = scan_unsafe_regions(path)?` starts
StartRegions ==
    /\ scan_pc = "annotations"
    /\ current_line = Len(source_lines)
    /\ scan_pc' = "regions"
    /\ current_line' = 0
    /\ UNCHANGED <<tracker_vars, gate_vars, outlives_vars, propagation_vars, walk_vars,
                   source_lines, in_comment_block,
                   pending_annotation, parsed_context, unsafe_stack, found_regions>>

\* `for (line_num, line_result) in reader.lines().enumerate()`
RegionLine ==
    /\ scan_pc = "regions"
    /\ current_line < Len(source_lines)
    /\ LET after == region_line([unsafe_stack |-> unsafe_stack, regions |-> found_regions],
                                source_lines[current_line + 1], current_line)
       IN /\ unsafe_stack' = after.unsafe_stack
          /\ found_regions' = after.regions
    /\ current_line' = current_line + 1
    /\ UNCHANGED <<tracker_vars, gate_vars, outlives_vars, propagation_vars, walk_vars,
                   source_lines, scan_pc,
                   in_comment_block, pending_annotation, parsed_context>>

\* `Ok(regions)` and the assignment to context.block_regions
FinishRegions ==
    /\ scan_pc = "regions"
    /\ current_line = Len(source_lines)
    /\ parsed_context' = [parsed_context EXCEPT !.block_regions = found_regions]
    /\ scan_pc' = "done"
    /\ UNCHANGED <<tracker_vars, gate_vars, outlives_vars, propagation_vars, walk_vars,
                   source_lines, current_line,
                   in_comment_block, pending_annotation, unsafe_stack, found_regions>>

NextScan ==
    \/ AnnotationLine
    \/ StartRegions
    \/ RegionLine
    \/ FinishRegions

SpecScan == InitScan /\ [][NextScan]_vars

----------------------------------------------------------------------------
(* Attachment of @safe / @unsafe markers *)

\* line k of the file begins inside a block comment that is still open
RECURSIVE InsideComment(_, _)
InsideComment(file, k) ==
    IF k = 1 THEN FALSE
    ELSE IF InsideComment(file, k - 1) THEN ~file[k - 1].closes
    ELSE file[k - 1].starts = "/*" /\ ~file[k - 1].closes

IsCommentLine(file, k) == InsideComment(file, k) \/ file[k].starts \in {"//", "/*"}

\* not blank, not a comment and not a preprocessor line
IsCodeLine(file, k) == ~IsCommentLine(file, k) /\ file[k].starts = "code"

IsMarkerLine(file, k) == IsCommentLine(file, k) /\ file[k].marker # "None"

\* the marker that is pending when line c is reached: that of the last marker
\* line before c with no line of code in between
Attached(file, c) ==
    LET ms == {m \in 1..(c - 1) : /\ IsMarkerLine(file, m)
                                  /\ \A j \in (m + 1)..(c - 1) : ~IsCodeLine(file, j)}
    IN IF ms = {} THEN "None" ELSE file[Latest(ms)].marker

AttachesToNextCodeLine ==
    (scan_pc = "annotations" /\ current_line' = current_line + 1) =>
        LET src == source_lines[current_line']
            annotation == IF IsCodeLine(source_lines, current_line')
                            THEN Attached(source_lines, current_line') ELSE "None"
        IN IF annotation = "None"
             THEN parsed_context' = parsed_context
           ELSE IF src.decl = "namespace"
             THEN parsed_context' = [parsed_context EXCEPT !.file_default = annotation]
           ELSE IF src.decl = "function"
             THEN parsed_context' =
                     [parsed_context EXCEPT !.function_overrides =
                                               Append(@, <<src.name, annotation>>)]
           ELSE parsed_context'.function_overrides = parsed_context.function_overrides

\* C15: one-shot attachment.  Reading a file top to bottom, a @safe / @unsafe
\* comment marker acts on the first following line that is not blank, not a
\* comment and not a preprocessor line, and on no other: a namespace
\* declaration takes it as the file default, a function declaration as an
\* override for its name, and a line of code with no marker pending since the
\* previous line of code changes nothing.
C15_OneShotAttachment == [][AttachesToNextCodeLine]_vars

----------------------------------------------------------------------------
(* Inline unsafe regions *)

Opens(file, k) == file[k].region = "open"
Closes(file, k) == file[k].region = "close"

Count(file, from, to, kind) ==
    Cardinality({k \in from..to : file[k].region = kind})

\* the markers of lines from..to pair up among themselves
Balanced(file, from, to) ==
    /\ Count(file, from, to, "open") = Count(file, from, to, "close")
    /\ \A k \in from..to : Count(file, from, k, "close") <= Count(file, from, k, "open")

\* line o holds the innermost opening marker still open at the closing line c
Partner(file, o, c) ==
    /\ o < c
    /\ Opens(file, o)
    /\ Closes(file, c)
    /\ Balanced(file, o + 1, c - 1)

NestedOrDisjoint(r, q) ==
    \/ r.end_line < q.start_line
    \/ q.end_line < r.start_line
    \/ r.start_line < q.start_line /\ q.end_line < r.end_line
    \/ q.start_line < r.start_line /\ r.end_line < q.end_line

\* the ranges recorded for the first n lines of the file, as a set
RangesOf(file, n) ==
    {UnsafeRegion(p[1], p[2]) : p \in {q \in (1..n) \X (1..n) : Partner(file, q[1], q[2])}}

RegionsAsClaimed(file, n, recorded) ==
    /\ {recorded[k] : k \in DOMAIN recorded} = RangesOf(file, n)
    /\ \A j \in DOMAIN recorded, k \in DOMAIN recorded :
          j # k => /\ recorded[j] # recorded[k]
                   /\ NestedOrDisjoint(recorded[j], recorded[k])
                   /\ j < k => recorded[j].end_line < recorded[k].end_line
    /\ \A c \in 1..n :
          Cardinality({k \in DOMAIN recorded : recorded[k].end_line = c})
              = IF \E o \in 1..n : Partner(file, o, c) THEN 1 ELSE 0
    /\ \A o \in 1..n :
          (Opens(file, o) /\ ~\E c \in 1..n : Partner(file, o, c)) =>
              ~\E k \in DOMAIN recorded : recorded[k].start_line = o

C16_WitnessUnpaired ==
    /\ scan_pc = "done"
    /\ Len(source_lines) = 4
    /\ Closes(source_lines, 1)
    /\ Opens(source_lines, 2)
    /\ Closes(source_lines, 3)
    /\ Opens(source_lines, 4)
    /\ parsed_context.block_regions = <<UnsafeRegion(2, 3)>>
    /\ unsafe_stack = <<4>>

----------------------------------------------------------------------------
(* analysis/unsafe_propagation.rs: calls to unsafe functions from safe code *)

\* parser::Expression
ExprVariable(name) == [kind |-> "Variable", name |-> name]
ExprFunctionCall(name, args) == [kind |-> "FunctionCall", name |-> name, args |-> args]
ExprBinaryOp(left, right) == [kind |-> "BinaryOp", left |-> left, right |-> right]
\* Expression::Move, Expression::Dereference and Expression::AddressOf
Wrapped(kind, inner) == [kind |-> kind, inner |-> inner]

Wrappers == {"Move", "Dereference", "AddressOf"}

\* parser::Statement
StmtFunctionCall(name, args) == [kind |-> "FunctionCall", name |-> name, args |-> args]
StmtAssignment(rhs) == [kind |-> "Assignment", rhs |-> rhs]
StmtReturn(expr) == [kind |-> "Return", expr |-> expr]
StmtIf(condition, then_branch, else_branch) ==
    [kind |-> "If", condition |-> condition, then_branch |-> then_branch,
     else_branch |-> else_branch]
StmtBlock(statements) == [kind |-> "Block", statements |-> statements]
StmtVariableDecl == [kind |-> "VariableDecl"]

MsgUnsafeCall == "Calling unsafe function '{}' at line {} requires unsafe context"
MsgUnsafeCallReturn == "Calling unsafe function '{}' in return statement requires unsafe context"
MsgUnsafeCallCondition == "Calling unsafe function '{}' in condition at line {} requires unsafe context"

is_standard_safe_function(func_name) ==
    func_name \in {"printf", "scanf", "puts", "gets", "malloc", "free", "new", "delete",
                   "memcpy", "memset", "strcpy", "sin", "cos", "sqrt", "pow",
                   "move", "std::move", "std::forward", "std::swap"}

is_function_safe(func_name, context, known_safe_functions) ==
    IF func_name \in known_safe_functions THEN TRUE
    ELSE IF is_standard_safe_function(func_name) THEN TRUE
    ELSE LET hits == {k \in DOMAIN context.function_overrides :
                         context.function_overrides[k][1] = func_name}
         IN IF hits # {}
              THEN context.function_overrides[Earliest(hits)][2] = "Safe"
              ELSE FALSE

RECURSIVE find_unsafe_function_call(_, _, _)
RECURSIVE find_in_args(_, _, _, _)

\* `for arg in args`, from the k-th argument on
find_in_args(args, k, context, known_safe_functions) ==
    IF k > Len(args) THEN NoneOpt
    ELSE LET found == find_unsafe_function_call(args[k], context, known_safe_functions)
         IN IF found.some THEN found
            ELSE find_in_args(args, k + 1, context, known_safe_functions)

find_unsafe_function_call(expr, context, known_safe_functions) ==
    CASE expr.kind = "FunctionCall" ->
           IF ~is_function_safe(expr.name, context, known_safe_functions)
             THEN Some(expr.name)
             ELSE find_in_args(expr.args, 1, context, known_safe_functions)
      [] expr.kind = "BinaryOp" ->
           LET found == find_unsafe_function_call(expr.left, context, known_safe_functions)
           IN IF found.some THEN found
              ELSE find_unsafe_function_call(expr.right, context, known_safe_functions)
      [] expr.kind \in Wrappers ->
           find_unsafe_function_call(expr.inner, context, known_safe_functions)
      [] OTHER -> NoneOpt

RECURSIVE check_statement_for_unsafe_calls(_, _, _)
RECURSIVE check_statements_from(_, _, _, _)

\* `for branch_stmt in ...` / `for block_stmt in statements`: the first error
check_statements_from(stmts, k, context, known_safe_functions) ==
    IF k > Len(stmts) THEN <<>>
    ELSE LET error == check_statement_for_unsafe_calls(stmts[k], context,
                                                       known_safe_functions)
         IN IF error # <<>> THEN error
            ELSE check_statements_from(stmts, k + 1, context, known_safe_functions)

\* Option<String>: <<>> for None, <<error>> for Some(error)
check_statement_for_unsafe_calls(stmt, context, known_safe_functions) ==
    CASE stmt.kind = "FunctionCall" ->
           IF ~is_function_safe(stmt.name, context, known_safe_functions)
             THEN <<ErrN(MsgUnsafeCall, <<stmt.name>>)>>
             ELSE <<>>
      [] stmt.kind = "Assignment" ->
           LET found == find_unsafe_function_call(stmt.rhs, context, known_safe_functions)
           IN IF found.some THEN <<ErrN(MsgUnsafeCall, <<found.val>>)>> ELSE <<>>
      [] stmt.kind = "Return" /\ stmt.expr.some ->
           LET found == find_unsafe_function_call(stmt.expr.val, context,
                                                  known_safe_functions)
           IN IF found.some THEN <<ErrN(MsgUnsafeCallReturn, <<found.val>>)>> ELSE <<>>
      [] stmt.kind = "If" ->
           LET found == find_unsafe_function_call(stmt.condition, context,
                                                  known_safe_functions)
               in_then == check_statements_from(stmt.then_branch, 1, context,
                                                known_safe_functions)
           IN IF found.some THEN <<ErrN(MsgUnsafeCallCondition, <<found.val>>)>>
              ELSE IF in_then # <<>> THEN in_then
              ELSE IF stmt.else_branch.some
                THEN check_statements_from(stmt.else_branch.val, 1, context,
                                           known_safe_functions)
              ELSE <<>>
      [] stmt.kind = "Block" ->
           check_statements_from(stmt.statements, 1, context, known_safe_functions)
      [] OTHER -> <<>>

\* main.rs: the names with a Safe entry in function_overrides
KnownSafeFunctions(context) ==
    {context.function_overrides[k][1] : k \in
        {n \in DOMAIN context.function_overrides : context.function_overrides[n][2] = "Safe"}}

\* one turn of `for stmt in &function.body` in check_unsafe_propagation
check_unsafe_propagation_step(function, stmt, context, known_safe_functions, errs) ==
    LET error == check_statement_for_unsafe_calls(stmt, context, known_safe_functions)
    IN IF error # <<>>
         THEN Append(errs, [fn |-> function.name, error |-> error[1]])
         ELSE errs

MaxStatements == 2     \* statements in the body of the function under check

Callees == {"safe_helper", "unsafe_op", "unmarked", "printf"}

PlainCalls == {ExprFunctionCall(n, <<>>) : n \in Callees}

Exprs ==
    {ExprVariable("x")}
    \cup PlainCalls
    \cup {ExprFunctionCall(n, <<c>>) : n \in {"safe_helper", "printf"}, c \in PlainCalls}
    \cup {ExprFunctionCall("safe_helper",
                           <<ExprVariable("x"), ExprFunctionCall("unmarked", <<>>)>>)}
    \cup {ExprBinaryOp(ExprVariable("x"), c) : c \in PlainCalls}
    \cup {ExprBinaryOp(c, ExprVariable("x")) : c \in PlainCalls}
    \cup {Wrapped(w, ExprFunctionCall(n, <<>>)) : w \in Wrappers,
                                                   n \in {"safe_helper", "unmarked"}}
    \cup {Wrapped("Dereference",
                  ExprBinaryOp(ExprVariable("x"),
                               ExprFunctionCall("printf",
                                                <<ExprFunctionCall("unsafe_op", <<>>)>>)))}

Arguments ==
    {<<>>, <<ExprVariable("x")>>, <<ExprFunctionCall("unmarked", <<>>)>>,
     <<ExprFunctionCall("safe_helper", <<>>)>>,
     <<ExprVariable("x"),
       ExprFunctionCall("printf", <<ExprFunctionCall("unsafe_op", <<>>)>>)>>}

PlainStmts ==
    {StmtFunctionCall(n, a) : n \in Callees, a \in Arguments}
    \cup {StmtAssignment(e) : e \in Exprs}
    \cup {StmtReturn(NoneOpt)}
    \cup {StmtReturn(Some(e)) : e \in Exprs}
    \cup {StmtVariableDecl}

ParsedBranches ==
    {<<>>,
     <<StmtFunctionCall("safe_helper", <<>>)>>,
     <<StmtFunctionCall("unmarked", <<>>)>>,
     <<StmtAssignment(ExprVariable("x")),
       StmtReturn(Some(ExprFunctionCall("unsafe_op", <<>>)))>>,
     <<StmtBlock(<<StmtFunctionCall("safe_helper",
                                    <<ExprFunctionCall("unmarked", <<>>)>>)>>)>>}

Conditions ==
    {ExprVariable("x"), ExprFunctionCall("unmarked", <<>>),
     ExprFunctionCall("safe_helper", <<>>),
     ExprBinaryOp(ExprVariable("x"), ExprFunctionCall("unsafe_op", <<>>))}

ParsedStmts ==
    PlainStmts
    \cup {StmtIf(c, t, NoneOpt) : c \in Conditions, t \in ParsedBranches}
    \cup {StmtIf(c, t, Some(e)) : c \in Conditions, t \in ParsedBranches, e \in ParsedBranches}
    \cup {StmtBlock(b) : b \in ParsedBranches}
    \cup {StmtBlock(<<StmtIf(ExprVariable("x"),
                             <<StmtFunctionCall("unmarked", <<>>)>>, NoneOpt)>>)}

\* contexts in which the function under check, f, resolves to Safe
PropagationContexts ==
    {c \in {[file_default |-> "Safe",
             function_overrides |-> <<<<"safe_helper", "Safe">>, <<"unsafe_op", "Unsafe">>>>],
            [file_default |-> "Default",
             function_overrides |-> <<<<"f", "Safe">>, <<"safe_helper", "Safe">>,
                                      <<"unsafe_op", "Unsafe">>>>]} :
        should_check_function(c, "f")}

\* main.rs hands a function that should be checked to check_unsafe_propagation
InitPropagation ==
    /\ TrackerIdle
    /\ program = <<>>
    /\ header_cache = EmptyMap
    /\ safety_context \in PropagationContexts
    /\ pc = "check_unsafe_propagation"
    /\ fn_index = 1
    /\ gate_errors = <<>>
    /\ OutlivesIdle
    /\ ScanIdle
    /\ WalkIdle
    /\ \E n \in 1..MaxStatements : \E body \in [1..n -> ParsedStmts] :
          ast_function = [name |-> "f", body |-> body]
    /\ checked_statements = 0
    /\ propagation_errors = <<>>

\* `for stmt in &function.body`
CheckStatement ==
    /\ pc = "check_unsafe_propagation"
    /\ checked_statements < Len(ast_function.body)
    /\ checked_statements' = checked_statements + 1
    /\ propagation_errors' =
          check_unsafe_propagation_step(ast_function,
                                        ast_function.body[checked_statements + 1],
                                        safety_context, KnownSafeFunctions(safety_context),
                                        propagation_errors)
    /\ UNCHANGED <<tracker_vars, gate_vars, outlives_vars, scan_vars, walk_vars, ast_function>>

NextPropagation ==
    \/ CheckStatement

SpecPropagation == InitPropagation /\ [][NextPropagation]_vars

RECURSIVE CallTargets(_)
RECURSIVE StatementCallTargets(_)

\* the targets of the call expressions in an expression, at any depth
CallTargets(expr) ==
    CASE expr.kind = "FunctionCall" ->
           {expr.name} \cup UNION {CallTargets(expr.args[k]) : k \in DOMAIN expr.args}
      [] expr.kind = "BinaryOp" -> CallTargets(expr.left) \cup CallTargets(expr.right)
      [] expr.kind \in Wrappers -> CallTargets(expr.inner)
      [] OTHER -> {}

\* the targets of the calls a statement contains, in the positions listed
StatementCallTargets(stmt) ==
    CASE stmt.kind = "FunctionCall" ->
           {stmt.name} \cup UNION {CallTargets(stmt.args[k]) : k \in DOMAIN stmt.args}
      [] stmt.kind = "Assignment" -> CallTargets(stmt.rhs)
      [] stmt.kind = "Return" -> IF stmt.expr.some THEN CallTargets(stmt.expr.val) ELSE {}
      [] stmt.kind = "If" ->
           CallTargets(stmt.condition)
           \cup UNION {StatementCallTargets(stmt.then_branch[k]) :
                          k \in DOMAIN stmt.then_branch}
           \cup (IF stmt.else_branch.some
                   THEN UNION {StatementCallTargets(stmt.else_branch.val[k]) :
                                  k \in DOMAIN stmt.else_branch.val}
                   ELSE {})
      [] stmt.kind = "Block" ->
           UNION {StatementCallTargets(stmt.statements[k]) : k \in DOMAIN stmt.statements}
      [] OTHER -> {}

MarkedSafe(context, name) ==
    \E k \in DOMAIN context.function_overrides :
        context.function_overrides[k] = <<name, "Safe">>

\* a call to this target needs an unsafe context
NeedsUnsafeContext(context, name) ==
    ~MarkedSafe(context, name) /\ ~is_standard_safe_function(name)

FlagsEveryUnsafeCall ==
    checked_statements' = checked_statements + 1 =>
        LET stmt == ast_function.body[checked_statements']
        IN (\E n \in StatementCallTargets(stmt) : NeedsUnsafeContext(safety_context, n))
              => Len(propagation_errors') = Len(propagation_errors) + 1

\* C17: in a function resolved Safe, a statement that contains, at any depth
\* (statement-level call, call arguments, binary operands, move / dereference /
\* address-of wrappers, assignment, return or condition position, then / else
\* branches, nested blocks), a call whose target is neither marked Safe nor on
\* the allow-list is flagged: checking it adds an error.
C17_UnsafePropagation == [][FlagsEveryUnsafeCall]_vars

----------------------------------------------------------------------------
(* Moving out of a reference *)

IsMoveFromReference(e) ==
    /\ e.stmt.op = "Move"
    /\ e.pre.unsafe_depth = 0
    /\ is_reference(e.pre, e.stmt.from)

\* C18 as claimed: outside unsafe, a Move whose source is recorded as a
\* reference (mutable or not) appends exactly one error, "cannot move ... behind
\* a reference", and no second one even when the source is Moved as well, and
\* leaves the ownership state of the source and of the destination as they were.
C18_Original ==
    EveryEvent(LAMBDA e :
        IsMoveFromReference(e) =>
            /\ Appended(e) = <<Err(MsgMoveBehindRef, e.stmt.from)>>
            /\ get_ownership(e.post, e.stmt.from) = get_ownership(e.pre, e.stmt.from)
            /\ get_ownership(e.post, e.stmt.to) = get_ownership(e.pre, e.stmt.to))

\* C18 as amended: outside unsafe, a Move whose source is recorded as a
\* reference (mutable or not) makes process_statement append exactly one error,
\* "cannot move ... behind a reference", and no "Use after move ... has already
\* been moved" error even when the source is Moved as well; for a Move directly
\* in a loop body, in the second pass, one "Use after move in loop" error comes
\* first when the source was Moved at the end of the first pass.  The ownership
\* state of the source and of the destination stay as they were.
C18_MoveBehindReference ==
    EveryEvent(LAMBDA e :
        IsMoveFromReference(e) =>
            /\ Appended(e) = LoopPart(e) \o <<Err(MsgMoveBehindRef, e.stmt.from)>>
            /\ get_ownership(e.post, e.stmt.from) = get_ownership(e.pre, e.stmt.from)
            /\ get_ownership(e.post, e.stmt.to) = get_ownership(e.pre, e.stmt.to))

C18_Witness ==
    /\ last_statement = Move("r1", "y")
    /\ unsafe_depth = 0
    /\ is_reference(Cur, "r1")
    /\ get_ownership(Cur, "r1") = "Moved"
    /\ errors = <<Err(MsgMoveBehindRef, "r1")>>
    /\ SomeEvent(LAMBDA e : /\ IsMoveFromReference(e)
                            /\ e.pass = 2
                            /\ Appended(e) = <<Err(MsgLoopMove, "r1"),
                                               Err(MsgMoveBehindRef, "r1")>>)
    /\ SomeEvent(LAMBDA e : /\ IsMoveFromReference(e)
                            /\ e.branch = "else"
                            /\ Appended(e) = <<Err(MsgMoveBehindRef, "r1")>>)

----------------------------------------------------------------------------
(* Borrowing a moved value *)

IsBorrowOfMoved(e) ==
    /\ e.stmt.op = "Borrow"
    /\ e.pre.unsafe_depth = 0
    /\ get_ownership(e.pre, e.stmt.from) = "Moved"

\* C19: outside unsafe, a Borrow of either kind whose source is Moved appends
\* exactly one error, "cannot borrow ... because it has been moved", and records
\* nothing: the borrow map, the scope frames and reference_info are as before,
\* so the destination is a borrower of the source only if it already was one.
C19_BorrowOfMoved ==
    EveryEvent(LAMBDA e :
        IsBorrowOfMoved(e) =>
            /\ Appended(e) = <<Err(MsgBorrowMoved, e.stmt.from)>>
            /\ e.post.borrows = e.pre.borrows
            /\ e.post.scope_stack = e.pre.scope_stack
            /\ e.post.reference_info = e.pre.reference_info
            /\ e.stmt.to \in get_borrows(e.post, e.stmt.from).borrowers
                  => e.stmt.to \in get_borrows(e.pre, e.stmt.from).borrowers)

C19_Witness ==
    /\ last_statement = Borrow("x", "r2", "Mutable")
    /\ unsafe_depth = 0
    /\ get_ownership(Cur, "x") = "Moved"
    /\ errors = <<Err(MsgBorrowMoved, "x")>>
    /\ borrows = EmptyMap
    /\ scope_stack = <<{}>>
    /\ ~is_reference(Cur, "r2")
    /\ SomeEvent(LAMBDA e : /\ IsBorrowOfMoved(e)
                            /\ e.stmt.kind = "Immutable"
                            /\ e.pass = 2
                            /\ Appended(e) = <<Err(MsgBorrowMoved, "x")>>)
    /\ SomeEvent(LAMBDA e : /\ IsBorrowOfMoved(e)
                            /\ e.stmt.kind = "Mutable"
                            /\ e.branch = "then"
                            /\ e.post.borrows = EmptyMap)

----------------------------------------------------------------------------
(* Runs of immutable borrows *)

MaxRun == 3      \* borrows in one run of consecutive immutable borrows

\* the runs of consecutive Immutable borrows of x tried as the next statements
ImmutableRuns ==
    UNION {[1..n -> {Borrow("x", t, "Immutable") : t \in {"r1", "r2"}}] : n \in 1..MaxRun}

\* x is not Moved and has no mutable borrow recorded, and the statement before
\* was not an Immutable borrow of x: a run can start here
RunStartsHere ==
    /\ get_ownership(Cur, "x") # "Moved"
    /\ ~get_borrows(Cur, "x").has_mutable
    /\ last_statement # Borrow("x", "r1", "Immutable")
    /\ last_statement # Borrow("x", "r2", "Immutable")

IsImmutableBorrow(e) ==
    /\ e.stmt.op = "Borrow"
    /\ e.stmt.kind = "Immutable"
    /\ get_ownership(e.pre, e.stmt.from) # "Moved"
    /\ ~get_borrows(e.pre, e.stmt.from).has_mutable

\* C20 as claimed: a run of consecutive Immutable borrows of a source that is
\* not Moved and has no mutable borrow recorded appends no error, and afterwards
\* has_mutable of the source is false and its immutable_count is the number of
\* borrows of the run.
C20_Original ==
    \A run \in ImmutableRuns :
        RunStartsHere =>
            LET after == process_branch(run, Cur)
            IN /\ after.errors = errors
               /\ ~get_borrows(after, "x").has_mutable
               /\ get_borrows(after, "x").immutable_count = Len(run)

\* C20 as amended: a run of consecutive Immutable borrows of a source that is
\* not Moved and has no mutable borrow recorded appends no error, and afterwards
\* has_mutable of the source is false and its immutable_count is its value
\* before the run plus the number of borrows of the run; each such borrow, in an
\* If branch and in either loop pass as well, appends nothing and raises the
\* count by one.
C20_ImmutableRuns ==
    /\ \A run \in ImmutableRuns :
          RunStartsHere =>
              LET after == process_branch(run, Cur)
              IN /\ after.errors = errors
                 /\ ~get_borrows(after, "x").has_mutable
                 /\ get_borrows(after, "x").immutable_count =
                       get_borrows(Cur, "x").immutable_count + Len(run)
    /\ EveryEvent(LAMBDA e :
          IsImmutableBorrow(e) =>
              /\ Appended(e) = <<>>
              /\ ~get_borrows(e.post, e.stmt.from).has_mutable
              /\ get_borrows(e.post, e.stmt.from).immutable_count =
                    get_borrows(e.pre, e.stmt.from).immutable_count + 1)

C20_Witness ==
    /\ i = 2
    /\ last_statement = Borrow("x", "r2", "Immutable")
    /\ unsafe_depth = 0
    /\ errors = <<>>
    /\ borrows = [x |-> [immutable_count |-> 2, has_mutable |-> FALSE,
                         borrowers |-> {"r1", "r2"}]]
    /\ \E run \in ImmutableRuns :
          /\ Len(run) = MaxRun
          /\ get_borrows(process_branch(run, Cur), "x").immutable_count = 2 + MaxRun
    /\ SomeEvent(LAMBDA e : IsImmutableBorrow(e) /\ e.pass = 2 /\ Appended(e) = <<>>)

----------------------------------------------------------------------------
(* Assignment through references *)

\* the properties of one claim, over statements and loops chosen for it
EveryEventIn(stmts, loops, P(_)) ==
    /\ \A s \in stmts :
          LET tr == Exec(s).trace IN \A k \in 1..Len(tr) : P(tr[k])
    /\ \A b \in loops :
          LET tr == ExecLoop(b).trace IN \A k \in 1..Len(tr) : P(tr[k])

SomeEventIn(stmts, loops, P(_)) ==
    \/ \E s \in stmts :
          LET tr == Exec(s).trace IN \E k \in 1..Len(tr) : P(tr[k])
    \/ \E b \in loops :
          LET tr == ExecLoop(b).trace IN \E k \in 1..Len(tr) : P(tr[k])

AssignIfs ==
    {If(<<Assign("r1", "x")>>, TRUE, <<Assign("r1", "x")>>),
     If(<<Move("x", "y")>>, TRUE, <<Assign("r1", NoVar)>>)}

AssignLoops ==
    {<<Assign("r1", "x")>>,
     <<Move("x", "y"), Assign("r1", "x")>>,
     <<Borrow("x", "r2", "Mutable"), Assign("r2", NoVar)>>,
     <<Move("y", "x"), Assign("r1", "x"), Move("x", "y")>>}

IsAssignOutsideUnsafe(e) ==
    /\ e.stmt.op = "Assign"
    /\ e.pre.unsafe_depth = 0

ThroughConstReference(e) ==
    /\ is_reference(e.pre, e.stmt.lhs)
    /\ ~is_mutable_reference(e.pre, e.stmt.lhs)

ReadsMoved(e) ==
    /\ e.stmt.rhs # NoVar
    /\ get_ownership(e.pre, e.stmt.rhs) = "Moved"

ConstAssignCount(errs) ==
    Cardinality({k \in 1..Len(errs) : errs[k].msg = MsgAssignConst})

\* what the second pass reports for an Assign directly in the loop body,
\* before process_statement runs
LoopPartOfAssign(e) ==
    IF /\ e.pass = 2
       /\ e.branch = "none"
       /\ e.stmt.rhs # NoVar
       /\ e.stmt.rhs \in DOMAIN e.pre.state_after_first
       /\ e.pre.state_after_first[e.stmt.rhs] = "Moved"
      THEN <<Err(MsgLoopMove, e.stmt.rhs)>>
      ELSE <<>>

\* C21 as claimed: outside unsafe, an Assign appends exactly one "cannot assign
\* ... through const reference" error when its left side is recorded as a
\* reference that is not mutable and none when it is a mutable reference or no
\* reference, and, independently, one use-after-move error when its right side
\* is a variable whose state is Moved.
C21_Original ==
    /\ EveryEvent(LAMBDA e :
          IsAssignOutsideUnsafe(e) =>
              /\ ConstAssignCount(Appended(e)) = IF ThroughConstReference(e) THEN 1 ELSE 0
              /\ ReadsMoved(e) => UseAfterMoveCount(Appended(e)) = 1)
    /\ EveryEventIn(AssignIfs, AssignLoops, LAMBDA e :
          IsAssignOutsideUnsafe(e) =>
              /\ ConstAssignCount(Appended(e)) = IF ThroughConstReference(e) THEN 1 ELSE 0
              /\ ReadsMoved(e) => UseAfterMoveCount(Appended(e)) = 1)

AssignsAsAmended(e) ==
    IsAssignOutsideUnsafe(e) =>
        Appended(e) = LoopPartOfAssign(e)
                      \o (IF ThroughConstReference(e)
                            THEN <<Err(MsgAssignConst, e.stmt.lhs)>> ELSE <<>>)
                      \o (IF ReadsMoved(e)
                            THEN <<Err(MsgRhsMoved, e.stmt.rhs)>> ELSE <<>>)

\* C21 as amended: outside unsafe, process_statement appends for an Assign
\* exactly one "cannot assign ... through const reference" error when its left
\* side is recorded as a reference that is not mutable and none otherwise, and
\* then one "Use after move ... has been moved" error exactly when its right
\* side is a variable whose state is Moved; for an Assign directly in a loop
\* body, in the second pass, one "Use after move in loop" error comes first
\* when the right side was Moved at the end of the first pass.
C21_AssignRule ==
    /\ EveryEvent(LAMBDA e : AssignsAsAmended(e))
    /\ EveryEventIn(AssignIfs, AssignLoops, LAMBDA e : AssignsAsAmended(e))

C21_Witness ==
    /\ last_statement = Assign("r1", "x")
    /\ unsafe_depth = 0
    /\ is_reference(Cur, "r1")
    /\ ~is_mutable_reference(Cur, "r1")
    /\ get_ownership(Cur, "x") = "Moved"
    /\ errors = <<Err(MsgAssignConst, "r1"), Err(MsgRhsMoved, "x")>>
    /\ SomeEventIn(AssignIfs, AssignLoops, LAMBDA e :
          /\ IsAssignOutsideUnsafe(e)
          /\ e.pass = 2
          /\ Appended(e) = <<Err(MsgLoopMove, "x"), Err(MsgAssignConst, "r1"),
                             Err(MsgRhsMoved, "x")>>)
    /\ SomeEventIn(AssignIfs, AssignLoops, LAMBDA e :
          /\ IsAssignOutsideUnsafe(e)
          /\ e.branch = "else"
          /\ Appended(e) = <<Err(MsgAssignConst, "r1"), Err(MsgRhsMoved, "x")>>)

----------------------------------------------------------------------------
(* Bookkeeping inside unsafe regions *)

\* the Moves and Borrows tried inside an unsafe region
RegionStmts ==
    {Move("x", "y"), Move("y", "x"), Move("x", Temp),
     Borrow("x", "r1", "Immutable"), Borrow("x", "r2", "Mutable")}

\* the tracker fields a Move or a Borrow writes
Bookkeeping(st) ==
    [ownership |-> st.ownership, borrows |-> st.borrows,
     reference_info |-> st.reference_info, scope_stack |-> st.scope_stack]

\* a Move or Borrow directly in the region
UpdatesInsideUnsafe(e) ==
    e.pre.unsafe_depth > 0 =>
        /\ (e.stmt.op = "Move" /\ e.stmt.from # e.stmt.to) =>
              /\ get_ownership(e.post, e.stmt.from) = "Moved"
              /\ get_ownership(e.post, e.stmt.to) = "Owned"
        /\ e.stmt.op = "Borrow" =>
              /\ e.stmt.to \in get_borrows(e.post, e.stmt.from).borrowers
              /\ is_reference(e.post, e.stmt.to)
              /\ is_mutable_reference(e.post, e.stmt.to) = (e.stmt.kind = "Mutable")

\* the same statement in both branches of an If nested in the region
UpdatesInsideNestedIf(s) ==
    unsafe_depth > 0 =>
        Bookkeeping(Exec(If(<<s>>, TRUE, <<s>>))) = Bookkeeping(Exec(s))

\* after the region, a Move of a variable moved inside it is reported
ReportedAfterRegion(s) ==
    (unsafe_depth = 0 /\ s.op = "Move" /\ get_ownership(Cur, s.from) = "Owned") =>
        /\ process_branch(<<Marker("EnterUnsafe"), s, Marker("ExitUnsafe"), s>>,
                          Cur).errors # errors
        /\ process_branch(<<Marker("EnterUnsafe"), If(<<s>>, TRUE, <<s>>),
                            Marker("ExitUnsafe"), s>>, Cur).errors # errors

\* C22: a Move or Borrow processed while unsafe-depth > 0, directly in the
\* region or inside an If nested in it, updates the tracker (Move: source
\* Moved, destination Owned; Borrow: borrower and reference_info recorded), so
\* that a Move, after the region, of a variable moved inside it is reported.
C22_UnsafeBookkeeping ==
    /\ EveryEvent(LAMBDA e : UpdatesInsideUnsafe(e))
    /\ \A s \in RegionStmts : UpdatesInsideNestedIf(s) /\ ReportedAfterRegion(s)

\* the part of C22 about statements directly in the region
DirectUnsafeBookkeeping ==
    /\ EveryEvent(LAMBDA e : UpdatesInsideUnsafe(e))
    /\ \A s \in RegionStmts :
          (unsafe_depth = 0 /\ s.op = "Move" /\ get_ownership(Cur, s.from) = "Owned") =>
              process_branch(<<Marker("EnterUnsafe"), s, Marker("ExitUnsafe"), s>>,
                             Cur).errors # errors

----------------------------------------------------------------------------
(* Loops inside If branches and inside other loops *)

Bracketed(loop_body) == <<Marker("EnterLoop")>> \o loop_body \o <<Marker("ExitLoop")>>

LoopErrorsAdded(st) ==
    {k \in Len(errors) + 1..Len(st.errors) : MentionsLoop(st.errors[k])}

\* x is Owned and nothing is borrowed: a loop that moves x is about to start
BeforeMovingLoop ==
    /\ unsafe_depth = 0
    /\ get_ownership(Cur, "x") = "Owned"
    /\ ~is_reference(Cur, "x")

\* the loop [Move(x,y)] as the whole body of a top-level loop
TopLevelLoopReported ==
    BeforeMovingLoop => LoopErrorsAdded(ExecLoop(<<Move("x", "y")>>)) # {}

\* the same loop inside the body of another loop
NestedLoopReported ==
    BeforeMovingLoop => LoopErrorsAdded(ExecLoop(Bracketed(<<Move("x", "y")>>))) # {}

\* the same loop inside a branch of an If
LoopInBranchReported ==
    BeforeMovingLoop =>
        /\ LoopErrorsAdded(Exec(If(Bracketed(<<Move("x", "y")>>), FALSE, <<>>))) # {}
        /\ LoopErrorsAdded(Exec(If(<<>>, TRUE, Bracketed(<<Move("x", "y")>>)))) # {}

\* C23: an EnterLoop ... ExitLoop body is simulated with two passes wherever it
\* occurs; a loop inside an If branch or inside another loop's body that moves
\* an outer variable yields an error that mentions the loop, like a top-level
\* loop does.
C23_LoopsEverywhere ==
    /\ TopLevelLoopReported
    /\ NestedLoopReported
    /\ LoopInBranchReported

\* the part of C23 about top-level loops and loops inside loops
LoopsInLoopsReported == TopLevelLoopReported /\ NestedLoopReported

----------------------------------------------------------------------------
(* A conditional move inside a loop *)

\* statements that read x: as the source of a Move or the right side of an Assign
ReadersOfX == {Move("x", "y"), Move("x", Temp), Assign("y", "x"), Assign("r1", "x")}

\* loop bodies with an If that moves x in one branch and reads it in the other
ConditionalMoveBodies(readers) ==
    {<<If(<<Move("x", "y")>>, TRUE, <<r>>)>> : r \in readers}
    \cup {<<If(<<r>>, TRUE, <<Move("x", "y")>>)>> : r \in readers}

ErrorsAbout(st, v) ==
    {k \in Len(errors) + 1..Len(st.errors) : st.errors[k].var = v}

ReportsConditionalMove(readers) ==
    \A b \in ConditionalMoveBodies(readers) : ErrorsAbout(ExecLoop(b), "x") # {}

\* C24: a loop whose body contains an If that moves x in one branch and reads
\* x (Move source or Assign right side) in the other yields at least one error
\* for x.
C24_ConditionalMoveInLoop ==
    unsafe_depth = 0 => ReportsConditionalMove(ReadersOfX)

\* the part of C24 in which the reading branch moves x itself
ConditionalDoubleMoveReported ==
    (unsafe_depth = 0 /\ ~is_reference(Cur, "x"))
        => ReportsConditionalMove({Move("x", "y"), Move("x", Temp)})

----------------------------------------------------------------------------
(* Loop-local borrows *)

\* x, declared outside the loop, is not Moved and nothing borrows it
CleanSource ==
    /\ unsafe_depth = 0
    /\ get_ownership(Cur, "x") # "Moved"
    /\ "x" \notin DOMAIN borrows

\* loop bodies that move nothing and create, as statements of the body itself,
\* one Mutable borrow of x or a run of Immutable ones
DirectBorrowBodies == {<<Borrow("x", "r1", "Mutable")>>} \cup ImmutableRuns

\* the same with the borrows inside an If of the body
BranchBorrowBodies ==
    {<<If(<<Borrow("x", "r1", "Mutable")>>, FALSE, <<>>)>>,
     <<If(<<Borrow("x", "r1", "Immutable")>>, FALSE, <<>>)>>,
     <<If(<<Borrow("x", "r1", "Immutable")>>, TRUE, <<Borrow("x", "r1", "Immutable")>>)>>}

\* the loop adds no error, and neither does a Mutable borrow of x after it
QuietLoop(loop_body) ==
    LET after == ExecLoop(loop_body)
    IN /\ after.errors = errors
       /\ process_statement(Borrow("x", "r2", "Mutable"), after).errors = errors

\* C25: borrows created inside a loop body are cleared between the two passes
\* and after the loop: a loop body that moves nothing and creates one Mutable
\* borrow, or any number of Immutable borrows, of a variable declared outside
\* the loop yields zero errors, and so does a new Mutable borrow of that
\* variable after ExitLoop.
C25_LoopLocalBorrows ==
    CleanSource => \A b \in DirectBorrowBodies \cup BranchBorrowBodies : QuietLoop(b)

\* the part of C25 about borrows that are statements of the loop body itself
DirectLoopLocalBorrows ==
    CleanSource => \A b \in DirectBorrowBodies : QuietLoop(b)

----------------------------------------------------------------------------
(* Borrows merged at an If *)

BranchBorrows == {Borrow("x", t, k) : t \in {"r1", "r2", "y"}, k \in Kinds}

BorrowBranches ==
    {<<>>}
    \cup {<<b>> : b \in BranchBorrows}
    \cup {<<Borrow("x", "r1", "Immutable"), Borrow("x", "r2", "Immutable")>>,
          <<Borrow("x", "r1", "Immutable"), Borrow("x", "r2", "Mutable")>>}

MergeIfs ==
    {If(t, FALSE, <<>>) : t \in BorrowBranches}
    \cup {If(t, TRUE, e) : t \in BorrowBranches, e \in BorrowBranches}

\* the two outcomes of an If, each branch run on its own from the state before
ThenOutcome(s) == process_branch(s.then_branch, Cur)
ElseOutcome(s) == IF s.has_else THEN process_branch(s.else_branch, Cur) ELSE Cur

\* borrower sets intersected, counts the minimum, has_mutable the AND, and no
\* entry for a source with an empty intersection
MergedAsDescribed(s) ==
    LET t == ThenOutcome(s).borrows
        e == ElseOutcome(s).borrows
        after == Exec(s).borrows
    IN \A v \in Names :
          IF v \in DOMAIN t /\ v \in DOMAIN e /\ t[v].borrowers \cap e[v].borrowers # {}
            THEN /\ v \in DOMAIN after
                 /\ after[v].borrowers = t[v].borrowers \cap e[v].borrowers
                 /\ after[v].immutable_count = Min(t[v].immutable_count, e[v].immutable_count)
                 /\ after[v].has_mutable = (t[v].has_mutable /\ e[v].has_mutable)
            ELSE v \notin DOMAIN after

\* no borrower of x is created by both branches
CreatedInOneBranchOnly(s) ==
    (get_borrows(ThenOutcome(s), "x").borrowers \ get_borrows(Cur, "x").borrowers)
        \cap (get_borrows(ElseOutcome(s), "x").borrowers \ get_borrows(Cur, "x").borrowers)
    = {}

\* a Borrow after the If is reported only if it would have been before the If
NoNewConflict(s) ==
    \A b \in BorrowStmts :
        process_statement(b, Exec(s)).errors # Exec(s).errors
            => process_statement(b, Cur).errors # errors

\* both branches record a mutable borrow of a source that had none
BothBranchesBorrowMutably(s) ==
    /\ get_borrows(ThenOutcome(s), "x").has_mutable
    /\ get_borrows(ElseOutcome(s), "x").has_mutable
    /\ ~get_borrows(Cur, "x").has_mutable

----------------------------------------------------------------------------
(* Scope exit *)

InnerBorrows == {Borrow(f, t, k) : f \in {"x", "y"}, t \in {"r1", "r2"}, k \in Kinds}

InnerBodies == {<<>>} \cup {<<b>> : b \in InnerBorrows}

\* the tracker after an inner scope holding `body` has been entered and left
AfterInnerScope(body) ==
    process_branch(<<Marker("EnterScope")>> \o body \o <<Marker("ExitScope")>>, Cur)

\* the borrowers of every source before the inner scope are still recorded
\* after it, and a Borrow of x that was reported before it is reported after it
OuterBorrowsStay(body) ==
    LET after == AfterInnerScope(body)
    IN /\ \A v \in Names :
              get_borrows(Cur, v).borrowers \subseteq get_borrows(after, v).borrowers
       /\ \A b \in BorrowStmts :
              process_statement(b, Cur).errors # errors
                  => process_statement(b, after).errors # after.errors

\* a recorded Borrow names its destination in the innermost frame
RecordedInInnermost(b) ==
    LET after == Exec(b)
    IN (unsafe_depth = 0 /\ after.borrows # borrows /\ Len(scope_stack) > 0)
          => /\ Len(after.scope_stack) = Len(scope_stack)
             /\ after.scope_stack[Len(scope_stack)]
                   = scope_stack[Len(scope_stack)] \cup {b.to}
             /\ \A k \in 1..(Len(scope_stack) - 1) :
                   after.scope_stack[k] = scope_stack[k]

\* no borrower of the inner scope has the name of a borrower recorded outside
FreshNames(body) ==
    \A k \in 1..Len(body) :
        \A v \in Names : body[k].to \notin get_borrows(Cur, v).borrowers

\* C27: each borrow is recorded in the innermost scope frame active when it is
\* created, an ExitScope releases only the borrows of the frame it pops, and a
\* borrow created in an enclosing scope or at function level stays in force
\* after an inner scope exits, so that a later conflicting Borrow is reported.
C27_InnermostScopeExit ==
    /\ \A b \in BorrowStmts : RecordedInInnermost(b)
    /\ \A body \in InnerBodies : OuterBorrowsStay(body)

\* the same for inner scopes whose borrowers have names not used outside
FreshInnerScopeExit ==
    /\ \A b \in BorrowStmts : RecordedInInnermost(b)
    /\ \A body \in InnerBodies : FreshNames(body) => OuterBorrowsStay(body)

\* an outer mutable borrow of x by r1 and an inner scope that borrows y as r1
C27_Shadowed ==
    /\ unsafe_depth = 0
    /\ get_borrows(Cur, "x").borrowers = {"r1"}
    /\ get_borrows(Cur, "x").has_mutable
    /\ get_ownership(Cur, "y") # "Moved"
    /\ LET after == AfterInnerScope(<<Borrow("y", "r1", "Immutable")>>)
       IN /\ after.errors = errors
          /\ "x" \notin DOMAIN after.borrows
          /\ process_statement(Borrow("x", "r2", "Mutable"), after).errors = errors
          /\ process_statement(Borrow("x", "r2", "Mutable"), Cur).errors # errors

----------------------------------------------------------------------------
(* Nested unsafe regions *)

\* the tracker after EnterUnsafe; EnterUnsafe; ExitUnsafe
InNestedUnsafe ==
    process_branch(<<Marker("EnterUnsafe"), Marker("EnterUnsafe"),
                     Marker("ExitUnsafe")>>, Cur)

\* and after the outermost ExitUnsafe
AfterNestedUnsafe == process_statement(Marker("ExitUnsafe"), InNestedUnsafe)

DepthRules ==
    /\ unsafe_depth >= 0
    /\ Exec(Marker("EnterUnsafe")).unsafe_depth = unsafe_depth + 1
    /\ Exec(Marker("ExitUnsafe")).unsafe_depth
          = IF unsafe_depth = 0 THEN 0 ELSE unsafe_depth - 1
    /\ unsafe_depth = 0 =>
          /\ InNestedUnsafe.unsafe_depth = 1
          /\ AfterNestedUnsafe.unsafe_depth = 0

\* a statement processed at positive depth appends nothing
StatementsUnchecked ==
    /\ unsafe_depth > 0 => \A s \in AllStmts : Exec(s).errors = errors
    /\ unsafe_depth = 0 =>
          \A s \in AllStmts : process_statement(s, InNestedUnsafe).errors = errors

\* a loop processed at positive depth appends nothing
LoopsUnchecked ==
    /\ unsafe_depth > 0 => \A b \in LoopBodies : ExecLoop(b).errors = errors
    /\ unsafe_depth = 0 =>
          \A b \in LoopBodies : check_loop(b, InNestedUnsafe).errors = errors

\* at depth 0 a Move of a moved variable is reported
CheckedAtDepthZero ==
    (unsafe_depth = 0 /\ get_ownership(Cur, "x") = "Moved") =>
        /\ Exec(Move("x", "y")).errors # errors
        /\ process_statement(Move("x", "y"), AfterNestedUnsafe).errors # errors

\* C28: unsafe-depth is never negative, EnterUnsafe increments it, ExitUnsafe
\* decrements it and is a no-op at depth 0, and checks are suppressed exactly
\* while the depth is positive: after EnterUnsafe; EnterUnsafe; ExitUnsafe the
\* statements are still unchecked, and checking resumes after the outermost
\* ExitUnsafe.
C28_NestedUnsafe ==
    /\ DepthRules
    /\ StatementsUnchecked
    /\ LoopsUnchecked
    /\ CheckedAtDepthZero

\* the same for statements that are not loops
StraightLineNestedUnsafe ==
    /\ DepthRules
    /\ StatementsUnchecked
    /\ CheckedAtDepthZero

\* a loop after EnterUnsafe; EnterUnsafe; ExitUnsafe that is reported
C28_LoopInNested ==
    /\ unsafe_depth = 0
    /\ errors = <<>>
    /\ get_ownership(Cur, "x") = "Owned"
    /\ check_loop(<<Move("x", "y")>>, InNestedUnsafe).errors
          = <<Err(MsgLoopMove, "x")>>

----------------------------------------------------------------------------
(* check_function over a block whose loop markers need not match *)

\* `while loop_end < block.statements.len() && loop_depth > 0`; indices are
\* those of the code, counted from 0
RECURSIVE find_loop_end(_, _, _)
find_loop_end(statements, loop_end, nesting) ==
    IF loop_end < Len(statements) /\ nesting > 0
      THEN find_loop_end(statements, loop_end + 1,
              CASE statements[loop_end + 1].op = "EnterLoop" -> nesting + 1
                [] statements[loop_end + 1].op = "ExitLoop" -> nesting - 1
                [] OTHER -> nesting)
      ELSE loop_end

\* `while i < block.statements.len()`; `run` carries the tracker, whether the
\* pass has aborted, and the positions handed to process_statement
RECURSIVE check_statements(_, _, _)
check_statements(statements, at, run) ==
    IF run.aborted \/ at >= Len(statements) THEN run
    ELSE IF statements[at + 1].op = "EnterLoop"
      THEN LET loop_end == find_loop_end(statements, at + 1, 1)
           IN \* &block.statements[i+1..loop_end-1] panics when i+1 > loop_end-1
              IF at + 1 > loop_end - 1
                THEN [run EXCEPT !.aborted = TRUE]
                ELSE check_statements(statements, loop_end,
                        [run EXCEPT
                            !.tracker = check_loop(SubSeq(statements, at + 2, loop_end - 1), @),
                            !.processed = @ \cup ((at + 2)..(loop_end - 1))])
      ELSE check_statements(statements, at + 1,
              [run EXCEPT !.tracker = process_statement(statements[at + 1], @),
                          !.processed = @ \cup {at + 1}])

MaxBlock == 3

BlockStmts ==
    {Marker("EnterLoop"), Marker("ExitLoop"), Marker("ExitScope"),
     Marker("ExitUnsafe"), Move("x", "y")}

Blocks == UNION {[1..n -> BlockStmts] : n \in 1..MaxBlock}

MarkerOps == {"EnterScope", "ExitScope", "EnterLoop", "ExitLoop",
              "EnterUnsafe", "ExitUnsafe"}

RunOf(blk) ==
    check_statements(blk, 0, [tracker |-> Cur, aborted |-> FALSE, processed |-> {}])

\* the pass comes to its end and has processed every statement that is not a marker
Completes(blk) ==
    /\ ~RunOf(blk).aborted
    /\ \A p \in 1..Len(blk) : blk[p].op \notin MarkerOps => p \in RunOf(blk).processed

\* the EnterLoop at position p has a matching ExitLoop
Closed(blk, p) ==
    \E q \in (p + 1)..Len(blk) :
        Cardinality({m \in (p + 1)..q : blk[m].op = "ExitLoop"})
            > Cardinality({m \in (p + 1)..q : blk[m].op = "EnterLoop"})

LoopsClosed(blk) == \A p \in 1..Len(blk) : blk[p].op = "EnterLoop" => Closed(blk, p)

\* C29: for every statement sequence, also with an EnterLoop that has no
\* matching ExitLoop, an EnterLoop as the last statement, or an ExitScope or
\* ExitUnsafe without opener, the pass terminates without aborting and every
\* statement that is not a marker is processed at least once.
C29_Completion == \A blk \in Blocks : Completes(blk)

\* the same for the blocks in which every EnterLoop has its ExitLoop
ClosedBlocksComplete == \A blk \in Blocks : LoopsClosed(blk) => Completes(blk)

\* the two ways in which an open loop ends the pass early
C29_OpenLoops ==
    /\ RunOf(<<Move("x", "y"), Marker("EnterLoop")>>).aborted
    /\ LET r == RunOf(<<Marker("EnterLoop"), Move("x", "y")>>)
       IN ~r.aborted /\ r.processed = {} /\ r.tracker.ownership = ownership
    /\ Completes(<<Marker("ExitScope"), Marker("ExitUnsafe"), Move("x", "y")>>)
    /\ Completes(<<Marker("EnterLoop"), Move("x", "y"), Marker("ExitLoop")>>)

----------------------------------------------------------------------------
(* Statement kinds without a rule *)

RuleLessOps == {"CallExpr", "Return", "Drop"}

RuleLessStmts ==
    {CallExpr("callee", <<"x">>, FALSE, ""),
     CallExpr("callee", <<"x", "y">>, TRUE, "r1"),
     Return(TRUE, "x"), Return(FALSE, ""), Drop("x")}

RuleLessIfs == {If(<<s>>, TRUE, <<s>>) : s \in RuleLessStmts}

RuleLessLoops ==
    {<<s>> : s \in RuleLessStmts} \cup {<<Move("x", "y"), s>> : s \in RuleLessStmts}

\* the variables a statement without a rule names
NamedBy(s) ==
    CASE s.op = "CallExpr" -> {s.args[k] : k \in 1..Len(s.args)}
      [] s.op = "Return" -> IF s.has_value THEN {s.value} ELSE {}
      [] s.op = "Drop" -> {s.name}
      [] OTHER -> {}

Untouched(e) ==
    /\ Appended(e) = <<>>
    /\ e.post.ownership = e.pre.ownership
    /\ e.post.borrows = e.pre.borrows
    /\ e.post.reference_info = e.pre.reference_info
    /\ e.post.scope_stack = e.pre.scope_stack
    /\ e.post.unsafe_depth = e.pre.unsafe_depth

\* C30: CallExpr, Return and Drop append no error and leave ownership, borrow
\* map, reference_info, scope stack and unsafe-depth unchanged, also when a
\* call argument or the returned value names a variable whose state is Moved.
C30_RuleLessStatements ==
    EveryEventIn(RuleLessStmts \cup RuleLessIfs, RuleLessLoops,
        LAMBDA e : e.stmt.op \in RuleLessOps => Untouched(e))

C30_Witness ==
    /\ last_statement = Move("x", "y")
    /\ unsafe_depth = 0
    /\ get_ownership(Cur, "x") = "Moved"
    /\ \A op \in {"CallExpr", "Return"} :
          \A pass \in {0, 1, 2} :
              SomeEventIn(RuleLessStmts \cup RuleLessIfs, RuleLessLoops,
                  LAMBDA e : /\ e.stmt.op = op
                             /\ e.pass = pass
                             /\ \E v \in NamedBy(e.stmt) :
                                   get_ownership(e.pre, v) = "Moved"
                             /\ Untouched(e))
    /\ SomeEventIn(RuleLessStmts, {}, LAMBDA e : e.stmt = Drop("x") /\ Untouched(e))

----------------------------------------------------------------------------
(* Move and the borrow map *)

IsMoveOfBorrowed(e) ==
    /\ e.stmt.op = "Move"
    /\ e.stmt.from \in DOMAIN e.pre.borrows

\* the same tracker with no borrow recorded
WithoutBorrows(st) == [st EXCEPT !.borrows = EmptyMap]

\* C31: a Move of a variable that has outstanding borrows appends no error on
\* account of the borrows (it appends what it would append with an empty
\* borrow map) and leaves the borrow map unchanged, so that the borrowers stay
\* registered after the variable has become Moved.
C31_MoveIgnoresBorrows ==
    EveryEvent(LAMBDA e :
        IsMoveOfBorrowed(e) =>
            /\ e.post.borrows = e.pre.borrows
            /\ Appended(e) = LoopPart(e) \o ErrorsOf(e.stmt, WithoutBorrows(e.pre))
            /\ e.post.ownership = process_statement(e.stmt, WithoutBorrows(e.pre)).ownership)

C31_Witness ==
    /\ last_statement = Borrow("x", "r1", "Mutable")
    /\ unsafe_depth = 0
    /\ errors = <<>>
    /\ get_ownership(Cur, "x") = "Owned"
    /\ \A pass \in {0, 1, 2} :
          SomeEvent(LAMBDA e :
              /\ IsMoveOfBorrowed(e)
              /\ e.pass = pass
              /\ e.stmt = Move("x", "y")
              /\ e.pre.borrows["x"].has_mutable
              /\ get_ownership(e.post, "x") = "Moved"
              /\ e.post.borrows["x"].borrowers = {"r1"})
    /\ Exec(Move("x", "y")).errors = <<>>

----------------------------------------------------------------------------
(* Markers attached to ordinary code *)

\* the scanner of parse_safety_annotations after the first k lines of a file
RECURSIVE ScannerAfter(_, _)
ScannerAfter(file, k) ==
    IF k = 0
      THEN [in_comment_block |-> FALSE, pending_annotation |-> "None",
            context |-> [file_default |-> "Default", function_overrides |-> <<>>,
                         block_regions |-> <<>>]]
      ELSE annotation_line(ScannerAfter(file, k - 1), file[k])

\* line k reaches the code part of the loop: it is not skipped as a comment,
\* an empty line or a preprocessor line
ReadAsCode(file, k) ==
    ~ScannerAfter(file, k - 1).in_comment_block /\ file[k].starts = "code"

FirstCodeElement(file, k) == \A j \in 1..(k - 1) : ~ReadAsCode(file, j)

\* the line read by this step is ordinary code and a marker is pending
OrdinaryCodeTakesMarker ==
    /\ scan_pc = "annotations"
    /\ current_line' = current_line + 1
    /\ pending_annotation # "None"
    /\ ReadAsCode(source_lines, current_line')
    /\ source_lines[current_line'].decl \notin {"namespace", "function"}

\* C32: when the next code line after a pending marker is neither a namespace
\* declaration nor a function declaration, the marker is consumed and the file
\* default and the overrides are left unchanged, except when that line is the
\* very first code element of the file and no default has been set yet: then
\* the marker may become the file default.
C32_OrdinaryCode ==
    [][OrdinaryCodeTakesMarker =>
          /\ pending_annotation' = "None"
          /\ IF /\ FirstCodeElement(source_lines, current_line')
                /\ parsed_context.file_default = "Default"
               THEN parsed_context' \in
                       {parsed_context,
                        [parsed_context EXCEPT !.file_default = pending_annotation]}
               ELSE parsed_context' = parsed_context]_vars

\* the same with the exception taken whenever no default has been set yet,
\* first code element or not
OrdinaryCodeWhileNoDefault ==
    [][OrdinaryCodeTakesMarker =>
          /\ pending_annotation' = "None"
          /\ IF /\ source_lines[current_line'].decl = "other"
                /\ parsed_context.file_default = "Default"
               THEN parsed_context' =
                        [parsed_context EXCEPT !.file_default = pending_annotation]
               ELSE parsed_context' = parsed_context]_vars

\* a marker on the second code element of a file has become the file default
C32_SecondElement ==
    /\ source_lines = <<Code("other", ""), Comment("//", FALSE, "Safe", "none"),
                        Code("other", "")>>
    /\ scan_pc = "annotations"
    /\ current_line = 3
    /\ parsed_context.file_default = "Safe"

----------------------------------------------------------------------------
(* Declared bounds at call sites *)

\* the scope of check_function_lifetimes when it reaches statement k
RECURSIVE ScopeAt(_, _)
ScopeAt(function, k) ==
    IF k = 1 THEN LifetimeScope(function)
    ELSE LET scope == ScopeAt(function, k - 1)
             s == Statements(function.body)[k - 1]
         IN IF s.op = "Borrow" /\ s.from \in DOMAIN scope.variable_lifetimes
              THEN [scope EXCEPT !.variable_lifetimes =
                       Put(@, s.to, scope.variable_lifetimes[s.from])]
            ELSE IF s.op = "Borrow" /\ is_owned(scope, s.from)
              THEN [scope EXCEPT !.variable_lifetimes = Put(@, s.to, LifetimeOf(s.to))]
            ELSE scope

\* `arg_lifetimes` of check_function_call
ArgLifetimes(args, scope) ==
    [k \in 1..Len(args) |->
        IF args[k] \in DOMAIN scope.variable_lifetimes
          THEN Some(scope.variable_lifetimes[args[k]])
        ELSE IF is_owned(scope, args[k]) THEN NoneOpt
        ELSE Some("'arg" \o ToString(k - 1))]

\* the calls of a function that are checked against a signature
CheckedCalls(function) ==
    {k \in DOMAIN Statements(function.body) :
        LET s == Statements(function.body)[k]
        IN /\ s.op = "CallExpr"
           /\ s.func \in DOMAIN header_cache
           /\ Len(s.args) = Len(header_cache[s.func].param_lifetimes)}

ArgumentNames == {"a", "b", "c"}

\* at call k of the function, every declared bound between two argument
\* lifetimes is reported exactly when the two lifetimes have different names
BoundsComparedByName(function, k) ==
    LET s == Statements(function.body)[k]
        signature == header_cache[s.func]
        scope == ScopeAt(function, k)
        actual == ArgLifetimes(s.args, scope)
        reported == check_function_call(s.func, s.args, signature, scope)
    IN \A b \in DOMAIN signature.lifetime_bounds :
          LET longer == map_lifetime_to_actual(signature.lifetime_bounds[b].longer, actual)
              shorter == map_lifetime_to_actual(signature.lifetime_bounds[b].shorter, actual)
          IN (/\ signature.lifetime_bounds[b].longer \in ArgumentNames
              /\ signature.lifetime_bounds[b].shorter \in ArgumentNames
              /\ longer.some
              /\ shorter.some)
                => ((\E j \in DOMAIN reported :
                        reported[j] = ErrN(MsgConstraint, <<s.func, longer.val, shorter.val>>))
                    <=> longer.val # shorter.val)

\* C33: no outlives bound is ever registered in the scope of
\* check_function_lifetimes, so that at every call site a declared bound whose
\* two names both map to argument lifetimes is reported as violated when the
\* two mapped names differ and passes only when they are the same name.
C33_BoundsByName ==
    \A f \in DOMAIN program :
        \A k \in CheckedCalls(program[f]) :
            /\ ScopeAt(program[f], k).constraints = <<>>
            /\ BoundsComparedByName(program[f], k)

C33_Witness ==
    /\ pc = "done"
    /\ program = <<Function("f", TwoReferences,
                            <<CallExpr("callee", <<"r1", "r2">>, FALSE, "")>>)>>
    /\ header_cache = [n \in {"callee"} |-> SigTwoRefs]
    /\ CheckedCalls(program[1]) = {1}
    /\ {gate_errors[k].error : k \in {j \in DOMAIN gate_errors :
                                          gate_errors[j].analysis = "lifetimes"}}
          = {ErrN(MsgConstraint, <<"callee", "'r1", "'r2">>),
             ErrN(MsgConstraint, <<"callee", "'r2", "'r1">>)}

----------------------------------------------------------------------------
(* The transitive search over cyclic bounds *)

\* some lifetime outlives itself through the registered bounds
Cyclic(bounds) ==
    \E a \in Lifetimes : ChainExists(bounds, a, a, Len(bounds))

\* the search from `a` for `b` ends, having entered each lifetime at most once:
\* the lifetimes it has marked visited are `a` and lifetimes below `a`
SearchEnds(bounds, a, b) ==
    LET search == check_outlives_transitive(bounds, a, b, {})
    IN /\ search.found \in BOOLEAN
       /\ a \in search.visited
       /\ \A v \in search.visited : v = a \/ ChainExists(bounds, a, v, Len(bounds))

\* C34: check_outlives terminates for every set of registered bounds, cyclic
\* ones included, and returns true iff longer equals shorter or shorter is
\* reached from longer by following registered bounds; it is never true for
\* two distinct lifetimes that no such chain connects.
C34_OutlivesTerminates ==
    LET bounds == lifetime_scope.constraints
    IN \A a \in Lifetimes, b \in Lifetimes :
          /\ SearchEnds(bounds, a, b)
          /\ check_outlives(lifetime_scope, a, b)
                <=> (a = b \/ ChainExists(bounds, a, b, Len(bounds)))
          /\ (outlives.longer = a /\ outlives.shorter = b /\ outlives.result)
                => (a = b \/ ChainExists(bounds, a, b, Len(bounds)))

C34_Witness ==
    /\ lifetime_scope.constraints = <<Bound("a", "b"), Bound("b", "a"), Bound("c", "d")>>
    /\ Cyclic(lifetime_scope.constraints)
    /\ outlives = [longer |-> "a", shorter |-> "c", result |-> FALSE]
    /\ check_outlives(lifetime_scope, "b", "a")
    /\ check_outlives(lifetime_scope, "a", "b")
    /\ check_outlives_transitive(lifetime_scope.constraints, "a", "d", {}).visited = {"a", "b"}

----------------------------------------------------------------------------
(* Liveness validation of the lifetime inference *)

\* the indexes (from 0) of the statements that define and that use a variable
DefinedAt(stmts, v) == {k - 1 : k \in {j \in DOMAIN stmts : v \in Defs(stmts[j])}}
UsedAt(stmts, v) == {k - 1 : k \in {j \in DOMAIN stmts : v \in Uses(stmts[j])}}

\* index n lies in the inferred lifetime of v: from its first definition to
\* its last use
InLifetime(stmts, v, n) ==
    /\ DefinedAt(stmts, v) # {}
    /\ \E d \in DefinedAt(stmts, v) : d <= n
    /\ \E u \in UsedAt(stmts, v) : n <= u

\* statement n of the function is flagged with `msg` about its source
FlaggedNotAlive(function, n, msg) ==
    LET stmts == Statements(function.body)
        outcomes == validate_statement(function, infer_function_lifetimes(stmts),
                                       stmts[n + 1], n)
    IN \E errs \in outcomes :
          \E j \in DOMAIN errs : errs[j] = ErrN(msg, <<stmts[n + 1].from>>)

LivenessRule(function) ==
    LET stmts == Statements(function.body)
    IN \A k \in DOMAIN stmts :
          LET s == stmts[k]
              n == k - 1
          IN /\ s.op = "Borrow" =>
                   (FlaggedNotAlive(function, n, MsgBorrowNotAlive)
                       <=> (DefinedAt(stmts, s.from) # {} /\ ~InLifetime(stmts, s.from, n)))
             /\ s.op = "Move" =>
                   /\ FlaggedNotAlive(function, n, MsgMoveNotAlive)
                         <=> ~InLifetime(stmts, s.from, n)
                   /\ DefinedAt(stmts, s.from) = {}
                         => FlaggedNotAlive(function, n, MsgMoveNotAlive)
             /\ (s.op \in {"Borrow", "Move"} /\ \E d \in DefinedAt(stmts, s.from) : d < n)
                   => /\ ~FlaggedNotAlive(function, n, MsgBorrowNotAlive)
                      /\ ~FlaggedNotAlive(function, n, MsgMoveNotAlive)

\* C35: a Borrow is flagged 'not alive' only when its source has an inferred
\* lifetime and the statement's index lies outside it; a Move is flagged
\* whenever its source is not alive at the statement's index, which includes
\* every Move whose source has no defining statement in the function; a Borrow
\* or Move whose source is defined by an earlier statement is never flagged.
C35_LivenessValidation == \A f \in DOMAIN program : LivenessRule(program[f])

C35_Witness ==
    /\ pc = "done"
    /\ Len(program) = 1
    /\ Statements(program[1].body) = <<Move("x", "y"), Assign("x", NoVar)>>
    /\ DefinedAt(Statements(program[1].body), "x") = {1}
    /\ {gate_errors[k].error : k \in {j \in DOMAIN gate_errors :
                                          gate_errors[j].analysis = "inference"}}
          = {ErrN(MsgMoveNotAlive, <<"x">>)}
    /\ LivenessRule(Function("f", TwoReferences,
                             <<Borrow("x", "r1", "Immutable"), Assign("x", NoVar)>>))
    /\ FlaggedNotAlive(Function("f", TwoReferences,
                                <<Borrow("x", "r1", "Immutable"), Assign("x", NoVar)>>),
                       0, MsgBorrowNotAlive)
    /\ FlaggedNotAlive(Function("f", TwoReferences, <<Move("x", "y"), Move("x", "r2")>>),
                       1, MsgMoveNotAlive)

----------------------------------------------------------------------------
(* Inferred lifetime intervals *)

\* the variables a statement reads: a Move or Borrow source, a call argument,
\* a returned value, the right-hand side of an Assign
Reads(s) ==
    CASE s.op = "Assign" -> IF s.rhs = NoVar THEN {} ELSE {s.rhs}
      [] s.op \in {"Move", "Borrow"} -> {s.from}
      [] s.op = "CallExpr" -> {s.args[k] : k \in DOMAIN s.args}
      [] s.op = "Return" -> IF s.has_value THEN {s.value} ELSE {}
      [] OTHER -> {}

ReadAt(stmts, v) == {k - 1 : k \in {j \in DOMAIN stmts : v \in Reads(stmts[j])}}

\* the interval from the first definition to the last index of `ends` after
\* it, a single point when there is none
IntervalTo(stmts, v, ends) ==
    LET start == Earliest(DefinedAt(stmts, v))
        later == {n \in ends : n >= start}
    IN [start |-> start, end |-> IF later = {} THEN start ELSE Latest(later)]

IntervalsEndAt(function, ends(_, _)) ==
    LET stmts == Statements(function.body)
        lifetimes == infer_function_lifetimes(stmts)
    IN /\ DOMAIN lifetimes = {v \in Names : DefinedAt(stmts, v) # {}}
       /\ \A v \in DOMAIN lifetimes :
             /\ lifetimes[v].start <= lifetimes[v].end
             /\ lifetimes[v].start = IntervalTo(stmts, v, ends(stmts, v)).start
             /\ lifetimes[v].end = IntervalTo(stmts, v, ends(stmts, v)).end

\* C36: every variable that is the destination of an Assign, Move, Borrow or
\* call result gets exactly one interval [start, end]: start is the index of
\* its first defining statement, end the index of the last statement that
\* reads it (Move or Borrow source, call argument, Return value, Assign
\* right-hand side); start <= end, and the interval is a single point when the
\* variable is never read after its definition.
C36_Intervals == \A f \in DOMAIN program : IntervalsEndAt(program[f], ReadAt)

\* the same with the end at the last statement that names the variable as
\* source, destination, argument, result or returned value
IntervalsEndAtLastMention == \A f \in DOMAIN program : IntervalsEndAt(program[f], UsedAt)

\* a variable read only on the right-hand side of an Assign
C36_ReadByAssign ==
    /\ pc = "done"
    /\ Statements(program[1].body) = <<Assign("x", NoVar), Assign("y", "x")>>
    /\ ReadAt(Statements(program[1].body), "x") = {1}
    /\ infer_function_lifetimes(Statements(program[1].body))["x"].end = 0

----------------------------------------------------------------------------
(* Dependencies of inferred lifetimes *)

\* the dependencies of v when the third pass reaches statement k
DependenciesBefore(stmts, v, k) ==
    infer_dependencies(SubSeq(stmts, 1, k - 1), lifetime_ranges(stmts))[v].dependencies

BorrowsRecorded(stmts) ==
    \A k \in DOMAIN stmts :
        stmts[k].op = "Borrow" =>
            /\ stmts[k].to \in DOMAIN infer_function_lifetimes(stmts)
            /\ stmts[k].from \in infer_function_lifetimes(stmts)[stmts[k].to].dependencies

IsTransfer(stmts, k) ==
    /\ stmts[k].op = "Move"
    /\ stmts[k].from \in DOMAIN infer_function_lifetimes(stmts)
    /\ stmts[k].to \in DOMAIN infer_function_lifetimes(stmts)

\* C37 as claimed: after inference, for every Move{from=a,to=b} in which both
\* a and b have inferred lifetimes, the dependency set of b contains every
\* dependency of a, whether the Borrow that gave a the dependency comes before
\* or after the Move, and every Borrow{from=s,to=r} puts s in the dependency
\* set of r.
C37_Original ==
    \A f \in DOMAIN program :
        LET stmts == Statements(program[f].body)
            lifetimes == infer_function_lifetimes(stmts)
        IN /\ BorrowsRecorded(stmts)
           /\ \A k \in DOMAIN stmts :
                 IsTransfer(stmts, k) =>
                     lifetimes[stmts[k].from].dependencies
                         \subseteq lifetimes[stmts[k].to].dependencies

\* C37 as amended: the dependency set of b contains every dependency that a
\* has received from the statements before the Move; every Borrow{from=s,to=r}
\* puts s in the dependency set of r.
C37_DependencyTransfer ==
    \A f \in DOMAIN program :
        LET stmts == Statements(program[f].body)
            lifetimes == infer_function_lifetimes(stmts)
        IN /\ BorrowsRecorded(stmts)
           /\ \A k \in DOMAIN stmts :
                 IsTransfer(stmts, k) =>
                     DependenciesBefore(stmts, stmts[k].from, k)
                         \subseteq lifetimes[stmts[k].to].dependencies

C37_Witness ==
    /\ pc = "done"
    /\ ~NothingToCheck
    /\ should_check_function(safety_context, "f")
    /\ Statements(program[1].body)
          = <<Borrow("x", "r1", "Immutable"), Move("r1", "r2"),
              Borrow("y", "r1", "Immutable")>>
    /\ IsTransfer(Statements(program[1].body), 2)
    /\ DependenciesBefore(Statements(program[1].body), "r1", 2) = {"x"}
    /\ infer_function_lifetimes(Statements(program[1].body))["r2"].dependencies = {"x"}
    /\ infer_function_lifetimes(Statements(program[1].body))["r1"].dependencies = {"x", "y"}


-----------------------------------------------------------------------------
(* scope_lifetime.rs: the walk of analyze_function_scopes over the          *)
(* function's control-flow graph.  A graph is its number of blocks (node    *)
(* indices 0 .. nodes-1) and its set of directed edges.                     *)

MaxBlocks == 3

Graph(n, edges) == [nodes |-> n, edges |-> edges]

Graphs ==
    UNION {{Graph(n, edges) : edges \in SUBSET ((0..(n - 1)) \X (0..(n - 1)))} : n \in 1..MaxBlocks}

node_indices(graph) == 0..(graph.nodes - 1)

\* `function.cfg.edges_directed(node, Direction::Incoming).count() == 0`
entry_blocks_every_node(graph) == node_indices(graph)

entry_blocks(graph) ==
    {n \in node_indices(graph) : {e \in graph.edges : e[2] = n} = {}}

\* `function.cfg.neighbors_directed(node_idx, Direction::Outgoing)`
neighbors_directed(graph, n) == {e[2] : e \in {d \in graph.edges : d[1] = n}}

\* node_indices() yields the indices in increasing order
RECURSIVE InIndexOrder(_)
InIndexOrder(S) ==
    IF S = {} THEN <<>>
    ELSE LET least == CHOOSE n \in S : \A o \in S : n <= o
         IN  <<least>> \o InIndexOrder(S \ {least})

InitWalk ==
    /\ TrackerIdle
    /\ GateIdle
    /\ OutlivesIdle
    /\ ScanIdle
    /\ PropagationIdle
    /\ cfg \in Graphs
    /\ block_queue = InIndexOrder(entry_blocks(cfg))
    /\ visited_blocks = {}
    /\ analyzed_blocks = <<>>
    /\ walk_pc = "walk"

\* `if visited.contains(&node_idx) { continue; }`
SkipVisited ==
    /\ walk_pc = "walk"
    /\ block_queue # <<>>
    /\ Head(block_queue) \in visited_blocks
    /\ block_queue' = Tail(block_queue)
    /\ UNCHANGED <<tracker_vars, gate_vars, outlives_vars, scan_vars, propagation_vars,
                   cfg, visited_blocks, analyzed_blocks, walk_pc>>

\* the rest of the loop body: insert into visited, analyze_block, queue the
\* successors (the graph library fixes their order; any order is allowed here)
AnalyzeBlock ==
    /\ walk_pc = "walk"
    /\ block_queue # <<>>
    /\ Head(block_queue) \notin visited_blocks
    /\ visited_blocks' = visited_blocks \cup {Head(block_queue)}
    /\ analyzed_blocks' = Append(analyzed_blocks, Head(block_queue))
    /\ \E successors \in Orderings(neighbors_directed(cfg, Head(block_queue))) :
          block_queue' = Tail(block_queue) \o successors
    /\ UNCHANGED <<tracker_vars, gate_vars, outlives_vars, scan_vars, propagation_vars,
                   cfg, walk_pc>>

\* `while let Some(..) = queue.pop_front()` finds the queue empty
FinishWalk ==
    /\ walk_pc = "walk"
    /\ block_queue = <<>>
    /\ walk_pc' = "done"
    /\ UNCHANGED <<tracker_vars, gate_vars, outlives_vars, scan_vars, propagation_vars,
                   cfg, block_queue, visited_blocks, analyzed_blocks>>

NextWalk ==
    \/ SkipVisited
    \/ AnalyzeBlock
    \/ FinishWalk

SpecWalk == InitWalk /\ [][NextWalk]_vars

\* analyze_function_scopes is one uninterrupted call: its loop keeps running
FairSpecWalk == SpecWalk /\ WF_vars(NextWalk)

\* the blocks that a path of at most `steps` edges reaches from `from`
RECURSIVE ReachableWithin(_, _, _)
ReachableWithin(graph, from, steps) ==
    IF steps = 0 THEN from
    ELSE ReachableWithin(graph, from \cup UNION {neighbors_directed(graph, n) : n \in from},
                         steps - 1)

ReachableFromEntry(graph) ==
    ReachableWithin(graph, {n \in node_indices(graph) :
                               {e \in graph.edges : e[2] = n} = {}}, graph.nodes)

TimesAnalyzed(n) == Cardinality({k \in 1..Len(analyzed_blocks) : analyzed_blocks[k] = n})

NoBlockTwice == \A n \in node_indices(cfg) : TimesAnalyzed(n) <= 1

ReachableExactlyOnce ==
    \A n \in node_indices(cfg) :
        TimesAnalyzed(n) = (IF n \in ReachableFromEntry(cfg) THEN 1 ELSE 0)

\* C38: on every control-flow graph, cyclic ones included, the walk of
\* analyze_function_scopes ends; no block is ever handed to analyze_block
\* twice, and when the walk has ended every block reachable from a block
\* without incoming edges was handed to it exactly once (and no other block).
C38_ScopedWalk ==
    /\ <>(walk_pc = "done")
    /\ [](NoBlockTwice)
    /\ [](walk_pc = "done" => ReachableExactlyOnce)

\* an entry block leads into a two-block cycle, and all three were analyzed
C38_Witness ==
    /\ walk_pc = "done"
    /\ cfg = Graph(3, {<<0, 1>>, <<1, 2>>, <<2, 1>>})
    /\ analyzed_blocks = <<0, 1, 2>>


-----------------------------------------------------------------------------
(* The scopes of the scoped lifetime tracker *)

ScopedErrorsOf(function) == analyze_function_scopes(function, header_cache)

OnlyRootScope(tracker) ==
    /\ DOMAIN tracker.scopes = {0}
    /\ tracker.scopes[0] = NoParent

DeclaredInRoot(tracker) ==
    \A v \in DOMAIN tracker.variable_scope : tracker.variable_scope[v] = 0

\* the tracker after each prefix of the function's statements
TrackerAfterPrefix(function, k) ==
    analyze_block(SubSeq(Statements(function.body), 1, k), func_scope,
                  ScopedTracker(function), function, header_cache)

NeverReported == {MsgDanglingReturn, MsgBorrowsDead}

\* C39: in the tracker that analyze_function_scopes drives, the root scope
\* (id 0, no parent) is the only scope at every point of the analysis and
\* every declared variable has it as declaring scope; for every function the
\* "Returning reference to local variable" error is never produced and no
\* queued BorrowedFrom constraint fails at validation, so neither message is
\* ever among the errors of the scoped pass.
C39_RootScopeOnly ==
    /\ \A f \in 1..Len(program) :
          /\ \A k \in 0..Len(Statements(program[f].body)) :
                /\ OnlyRootScope(TrackerAfterPrefix(program[f], k))
                /\ DeclaredInRoot(TrackerAfterPrefix(program[f], k))
          /\ \A k \in 1..Len(ScopedErrorsOf(program[f])) :
                ScopedErrorsOf(program[f])[k].msg \notin NeverReported
    /\ \A k \in 1..Len(gate_errors) : gate_errors[k].error.msg \notin NeverReported

\* the scoped pass has run over a function that borrows a local into a
\* reference and returns that reference
C39_Witness ==
    /\ pc = "done"
    /\ header_cache # EmptyMap
    /\ program[1].body = <<Borrow("y", "r1", "Immutable"), Return(TRUE, "r1")>>
    /\ IsReferenceType(program[1], "r1")
    /\ ~scoped_is_parameter("r1", program[1])
    /\ Len(TrackerAfterWalk(program[1], header_cache).constraints) = 1
    /\ TrackerAfterWalk(program[1], header_cache).constraints[1].kind = "BorrowedFrom"


-----------------------------------------------------------------------------
(* The shape of the tracker's scope stack *)

MaxShape == 4

ScopedIf ==
    If(<<Marker("EnterScope"), Borrow("x", "r1", "Mutable"), Marker("ExitScope")>>, TRUE,
       <<Marker("EnterScope"), Marker("ExitScope")>>)

ShapeStmts ==
    {Marker("EnterScope"), Marker("ExitScope"), Marker("EnterLoop"), Marker("ExitLoop"),
     ScopedIf}

\* scopes that the first p statements have opened and not closed
OpenAt(blk, p) ==
    Cardinality({m \in 1..p : blk[m].op = "EnterScope"})
        - Cardinality({m \in 1..p : blk[m].op = "ExitScope"})

\* each ExitScope matches an earlier unmatched EnterScope
ScopesMatched(blk) == \A p \in 1..Len(blk) : OpenAt(blk, p) >= 0

\* every ExitLoop has its EnterLoop, too
LoopsMatched(blk) ==
    /\ LoopsClosed(blk)
    /\ \A p \in 1..Len(blk) :
          Cardinality({m \in 1..p : blk[m].op = "ExitLoop"})
              <= Cardinality({m \in 1..p : blk[m].op = "EnterLoop"})

ShapeBlocks ==
    {blk \in UNION {[1..n -> ShapeStmts] : n \in 1..MaxShape} :
        ScopesMatched(blk) /\ LoopsMatched(blk)}

\* the statements of every loop open as many scopes as they close
RECURSIVE LoopsKeepDepth(_, _)
LoopsKeepDepth(blk, p) ==
    IF p > Len(blk) THEN TRUE
    ELSE IF blk[p].op = "EnterLoop"
      THEN LET loop_end == find_loop_end(blk, p, 1)
           IN /\ OpenAt(blk, loop_end) = OpenAt(blk, p)
              /\ LoopsKeepDepth(blk, loop_end + 1)
      ELSE LoopsKeepDepth(blk, p + 1)

\* the lengths of the scope stack while check_function runs over a block:
\* after each statement at the top level, and after each statement of a loop
\* body in its first and in its second pass; `at` counts the statements of
\* the block that lie before the point
RECURSIVE StackLengths(_, _, _)
StackLengths(statements, at, st) ==
    IF at >= Len(statements) THEN {}
    ELSE IF statements[at + 1].op = "EnterLoop"
      THEN LET loop_end == find_loop_end(statements, at + 1, 1)
               loop_body == SubSeq(statements, at + 2, loop_end - 1)
               entered == [enter_loop(st) EXCEPT !.pass = 1]
               first == process_branch(loop_body, entered)
               state_after_first == first.ownership
               cleared == [clear_loop_locals(first, LoopLocalVars(loop_body))
                              EXCEPT !.pass = 2, !.state_after_first = state_after_first]
               after == check_loop(loop_body, st)
           IN {[at |-> at + 1 + k,
                len |-> Len(process_branch(SubSeq(loop_body, 1, k), entered).scope_stack)] :
                  k \in 0..Len(loop_body)}
              \cup {[at |-> at + 1 + k,
                     len |-> Len(second_iteration(SubSeq(loop_body, 1, k), state_after_first,
                                                  cleared).scope_stack)] :
                       k \in 0..Len(loop_body)}
              \cup {[at |-> loop_end, len |-> Len(after.scope_stack)]}
              \cup StackLengths(statements, loop_end, after)
      ELSE LET after == process_statement(statements[at + 1], st)
           IN {[at |-> at + 1, len |-> Len(after.scope_stack)]}
              \cup StackLengths(statements, at + 1, after)

\* from a tracker that has its root frame, the stack always has one frame
\* more per open scope
ShapeKept(blk) ==
    \A o \in StackLengths(blk, 0, Cur) : o.len = Len(scope_stack) + OpenAt(blk, o.at)

ShapeIfs ==
    {If(t, has_else, e) : t \in {<<Marker("EnterScope"), Borrow("x", "r1", "Mutable")>>,
                                 <<Borrow("x", "r2", "Immutable")>>, <<Marker("ExitScope")>>},
                          has_else \in BOOLEAN,
                          e \in {<<>>, <<Marker("EnterScope")>>, <<Marker("ExitScope")>>}}
       \cup {ScopedIf}

\* clone_state, restore_state and merge_states leave the stack as the
\* branches left it
IfKeepsStack(s) ==
    LET after_then == process_branch(s.then_branch, Cur)
        restored == restore_state(after_then, clone_state(Cur))
        after_else == process_branch(IF s.has_else THEN s.else_branch ELSE <<>>, restored)
    IN /\ restored.scope_stack = after_then.scope_stack
       /\ merge_states(after_else, clone_state(after_then), clone_state(after_else)).scope_stack
              = after_else.scope_stack
       /\ process_statement(s, Cur).scope_stack = after_else.scope_stack

C40_Original ==
    Len(scope_stack) >= 1 =>
        /\ \A blk \in ShapeBlocks : ShapeKept(blk)
        /\ unsafe_depth = 0 => \A s \in ShapeIfs : IfKeepsStack(s)

\* C40: for every statement sequence in which each ExitScope matches an
\* earlier unmatched EnterScope and in which the statements between every
\* EnterLoop and its ExitLoop open as many scopes as they close, the scope
\* stack keeps its root frame, its length is always 1 plus the number of open
\* scopes (also inside both passes of a loop), so it is back to 1 at the end
\* of a balanced sequence, and the snapshot, restore and merge of an If never
\* change it.
C40_ScopeStackShape ==
    Len(scope_stack) >= 1 =>
        /\ \A blk \in ShapeBlocks : LoopsKeepDepth(blk, 1) => ShapeKept(blk)
        /\ unsafe_depth = 0 => \A s \in ShapeIfs : IfKeepsStack(s)

\* a scope was opened and closed again, and a loop whose body opens and
\* closes a scope is next
C40_Witness ==
    /\ last_statement = Marker("ExitScope")
    /\ Len(scope_stack) = 1
    /\ unsafe_depth = 0
    /\ [at |-> 2, len |-> 2]
          \in StackLengths(<<Marker("EnterLoop"), Marker("EnterScope"), ScopedIf,
                             Marker("ExitScope"), Marker("ExitLoop")>>, 0, Cur)
    /\ process_statement(ScopedIf, Cur).scope_stack = scope_stack

\* a loop body that closes a scope opened before the loop pops the root frame
C40_LoopClosesOuterScope ==
    /\ Len(scope_stack) = 1
    /\ [at |-> 4, len |-> 0]
          \in StackLengths(<<Marker("EnterScope"), Marker("EnterLoop"), Marker("ExitScope"),
                             Marker("ExitLoop")>>, 0, Cur)

====
